---- MODULE Spec2Model ----
(***************************************************************************)
(* Telegram job scraper: the poll / filter / forward / record loop of      *)
(* src/index.js with its collaborators (ledger: src/utils/storage.js,      *)
(* source reader: src/unnamed/part_000, forwarder:                         *)
(* src/modules/botHandler.js, keyword filter: src/modules/jobFilter.js).   *)
(*                                                                         *)
(* Node runs the program on one thread: a handler runs from the event that *)
(* resumes it up to its next await.  Each action below is one such run:    *)
(* the resolution (or rejection) of the awaited call or timer together     *)
(* with all the synchronous code that follows it.                          *)
(***************************************************************************)
EXTENDS Integers, Sequences, FiniteSets, TLC

(***************************************************************************)
(* Bounds of the model.  The three scaled values stand for numbers of the  *)
(* program that are too large to enumerate: the code is the same for       *)
(* every value of them.                                                    *)
(***************************************************************************)
\* Message ids the channel can hold: 1..MaxMsgId.
MaxMsgId == 3
\* Activations of pollForMessages that can be in progress at once.
MaxPasses == 2
\* Scaled `limit` of the poll fetch (index.js:117 passes 10).
PollLimit == 2
\* Scaled `limit` of the initial scan (index.js:190 passes 50).
RecentLimit == 2
\* Scaled ceiling of the ledger (storage.js:86 defaults maxSize to 10000).
CleanupCeiling == 2
\* Process starts after the first one (the ledger file survives them).
MaxRestarts == 1
\* Calls the environment can reject.
MaxFaults == 4
\* Calls the environment can reject in the runs of SpecReconnect: enough
\* for maxReconnectAttempts failed reconnections of reconnectMaxRetries
\* connects each, after the fetch error that starts them.
ReconnectFaults == 16
\* Calls the environment can reject, changes of the file system's state
\* included, in the runs of SpecDisk, SpecStorage and SpecForwarder.
FewFaults == 2
\* Saturation of the delivery counters (history only).
MaxCount == 2

\* Program constants.
maxReconnectAttempts == 5
reconnectMaxRetries == 3

MsgIds == 1..MaxMsgId
Slots == 1..MaxPasses
\* Actor 0 is the SIGINT/SIGTERM handler; actors 1..MaxPasses run start()
\* (slot 1, before the timer exists) and the timer's pollForMessages calls.
Actors == 0..MaxPasses

Max(a, b) == IF a >= b THEN a ELSE b
Min(a, b) == IF a <= b THEN a ELSE b

(***************************************************************************)
(* Keyword filter (jobFilter.js).  A text is a sequence of one-character   *)
(* strings; an absent text field is the empty text (both are falsy in      *)
(* JavaScript).                                                            *)
(***************************************************************************)
\* String.prototype.toLowerCase on the characters the model uses.
toLowerCase(text) ==
    [i \in 1..Len(text) |->
        CASE text[i] = "R" -> "r"
          [] text[i] = "D" -> "d"
          [] text[i] = "B" -> "b"
          [] OTHER -> text[i]]

\* \w of a JavaScript regular expression, on the characters the model uses.
IsWordChar(c) ==
    c \in {"r", "e", "a", "c", "t", "o", "d", "v", "i", "n", "g", "l", "p", "m",
           "R", "D"}

\* String.prototype.trim: leading and trailing blanks removed.
RECURSIVE trimStart(_)
trimStart(text) ==
    IF text # << >> /\ Head(text) = " " THEN trimStart(Tail(text)) ELSE text
RECURSIVE trimEnd(_)
trimEnd(text) ==
    IF text # << >> /\ text[Len(text)] = " "
    THEN trimEnd(SubSeq(text, 1, Len(text) - 1))
    ELSE text
trim(text) == trimEnd(trimStart(text))

\* A message object with the fields extractText reads.  entities is
\* absent, an array, or a truthy value that is not an array; replyTo is
\* absent or an object.
Message(message, caption, entities, replyTo) ==
    [kind |-> "object", message |-> message, caption |-> caption,
     entities |-> entities, replyTo |-> replyTo]
Absent == [kind |-> "absent", items |-> << >>, message |-> << >>]
Array(items) == [kind |-> "array", items |-> items, message |-> << >>]
ReplyTo(message) == [kind |-> "object", items |-> << >>, message |-> message]

\* The channel's messages.
MessageOf(id) ==
    CASE id % 4 = 1 -> Message(<<"R","e","a","c","t"," ","d","e","v">>, << >>,
                               Absent, Absent)
      [] id % 4 = 2 -> Message(<<"r","e","a","c","t","o","r">>, << >>, Absent, Absent)
      [] id % 4 = 3 -> Message(<< >>, <<"d","e","v"," ","r","e","a","c","t">>,
                               Absent, Absent)
      [] OTHER      -> Message(<< >>, << >>, Absent, Absent)

\* config.keywords after the constructor's toLowerCase.
keywords == << <<"d","e","v","o","t","e">>, <<"r","e","a","c","t">> >>

\* The constructor's keywords.map(k => k.toLowerCase()) (jobFilter.js:13).
toLowerCaseAll(kws) == [k \in 1..Len(kws) |-> toLowerCase(kws[k])]

\* The outcome of a call: it threw, or it returned value.
Threw == [threw |-> TRUE, value |-> FALSE]
Return(value) == [threw |-> FALSE, value |-> value]

\* The texts of the entities, each followed by a blank (jobFilter.js:38-42).
RECURSIVE EntityTexts(_)
EntityTexts(items) ==
    IF items = << >> THEN << >>
    ELSE (IF Head(items).text # << >> THEN Head(items).text \o <<" ">> ELSE << >>)
         \o EntityTexts(Tail(items))

\* extractText (jobFilter.js:21-51).  forEach of a value that is not an
\* array, and .text of a null entity, throw a TypeError.
extractText(message) ==
    IF message.kind = "null" THEN Return(<< >>)
    ELSE IF message.entities.kind = "other" THEN Threw
    ELSE IF \E k \in 1..Len(message.entities.items) :
                message.entities.items[k].kind = "null" THEN Threw
    ELSE LET a == IF message.message # << >> THEN message.message \o <<" ">> ELSE << >>
             b == IF message.caption # << >> THEN message.caption \o <<" ">> ELSE << >>
             c == EntityTexts(message.entities.items)
             d == IF message.replyTo.kind = "object" /\ message.replyTo.message # << >>
                  THEN message.replyTo.message \o <<" ">> ELSE << >>
         IN Return(toLowerCase(trim(a \o b \o c \o d)))

\* \b at offset p (0..Len): exactly one neighbour is a word character.
WordBoundary(text, p) ==
    LET before == p >= 1 /\ IsWordChar(text[p])
        after == p < Len(text) /\ IsWordChar(text[p + 1])
    IN before # after

\* new RegExp(`\\b${keyword}\\b`, 'i') throws a SyntaxError ("nothing to
\* repeat") when a + of the keyword has nothing to quantify: it follows
\* the \b or another +.
RegExpThrows(keyword) ==
    \E k \in 1..Len(keyword) :
        keyword[k] = "+" /\ (k = 1 \/ keyword[k - 1] = "+")

\* The offsets at which a match of keyword[k..] that starts at offset p of
\* text can end: a character matches itself without regard to case, and a
\* character followed by + matches one or more of itself.
RECURSIVE MatchEnds(_, _, _, _)
MatchEnds(keyword, k, text, p) ==
    LET same(j) == toLowerCase(<<text[j]>>) = toLowerCase(<<keyword[k]>>)
    IN IF k > Len(keyword) THEN {p}
       ELSE IF k < Len(keyword) /\ keyword[k + 1] = "+"
       THEN UNION {MatchEnds(keyword, k + 2, text, p + n) :
                     n \in {m \in 1..(Len(text) - p) :
                              \A j \in (p + 1)..(p + m) : same(j)}}
       ELSE IF p < Len(text) /\ same(p + 1)
       THEN MatchEnds(keyword, k + 1, text, p + 1)
       ELSE {}

\* new RegExp(`\\b${keyword}\\b`, 'i').test(text) for a keyword of letters
\* and +.
RegexTest(keyword, text) ==
    \E p \in 0..Len(text) :
        /\ WordBoundary(text, p)
        /\ \E q \in MatchEnds(keyword, 1, text, p) : WordBoundary(text, q)

\* containsKeywords of a filter with the keyword list kws
\* (jobFilter.js:56-72): the keywords are tried in order, up to the first
\* whose RegExp throws or matches.
containsKeywordsOf(kws, text) ==
    LET lowerText == toLowerCase(text)
        stops == {k \in 1..Len(kws) :
                    RegExpThrows(kws[k]) \/ RegexTest(kws[k], lowerText)}
        first == CHOOSE k \in stops : \A j \in stops : k <= j
    IN IF Len(text) = 0 \/ stops = {} THEN Return(FALSE)
       ELSE IF RegExpThrows(kws[first]) THEN Threw
       ELSE Return(TRUE)

\* Mutant: isJobPost without its try/catch.
IsJobPostNoCatch(kws, message) ==
    LET text == extractText(message)
    IN IF text.threw THEN Threw
       ELSE IF text.value = << >> THEN Return(FALSE)
       ELSE containsKeywordsOf(kws, text.value)

\* isJobPost of a filter with the keyword list kws (jobFilter.js:77-97).
isJobPostOf(kws, message) ==
    LET text == extractText(message)
        isMatch == containsKeywordsOf(kws, text.value)
    IN IF text.threw THEN Return(FALSE)
       ELSE IF text.value = << >> THEN Return(FALSE)
       ELSE IF isMatch.threw THEN Return(FALSE)
       ELSE Return(isMatch.value)

\* The application's filter (index.js:45).
containsKeywords(text) == containsKeywordsOf(keywords, text).value
isJobPost(message) == isJobPostOf(keywords, message).value

(***************************************************************************)
(* Ledger (storage.js).  processedIds is a JavaScript Set: it keeps        *)
(* insertion order, so it is a sequence without repetitions.               *)
(***************************************************************************)
isProcessed(ids, messageId) == \E i \in 1..Len(ids) : ids[i] = messageId

\* Set.prototype.add.
SetAdd(ids, messageId) ==
    IF isProcessed(ids, messageId) THEN ids ELSE Append(ids, messageId)

\* idsArray.slice(-maxSize): the whole array when maxSize is 0.
SliceLast(ids, maxSize) ==
    IF maxSize = 0 \/ maxSize >= Len(ids) THEN ids
    ELSE SubSeq(ids, Len(ids) - maxSize + 1, Len(ids))

\* The decimal digits of a non-negative integer, and back.
Digit(d) == <<"0", "1", "2", "3", "4", "5", "6", "7", "8", "9">>[d + 1]
\* Mutant: only the last digit of a number is written.
ToDigitsLast(n) == <<Digit(n % 10)>>

RECURSIVE ToDigits(_)
ToDigits(n) ==
    IF n < 10 THEN <<Digit(n)>> ELSE Append(ToDigits(n \div 10), Digit(n % 10))
IsDigit(c) == c \in {Digit(d) : d \in 0..9}
DigitValue(c) == CHOOSE d \in 0..9 : Digit(d) = c
RECURSIVE FromDigits(_)
FromDigits(ds) ==
    IF ds = << >> THEN 0
    ELSE 10 * FromDigits(SubSeq(ds, 1, Len(ds) - 1)) + DigitValue(ds[Len(ds)])

\* A file's text is a sequence of tokens: punctuation, key names, digits.
\* JSON.stringify of an array of numbers.
RECURSIVE StringifyArray(_)
StringifyArray(ids) ==
    IF ids = << >> THEN << >>
    ELSE IF Len(ids) = 1 THEN ToDigits(ids[1])
    ELSE ToDigits(ids[1]) \o <<",">> \o StringifyArray(Tail(ids))

\* JSON.stringify({messageIds, lastUpdated}) (storage.js:51-55).
stringify(ids) ==
    <<"{", "messageIds", ":", "[">> \o StringifyArray(ids)
        \o <<"]", ",", "lastUpdated", ":", "date", "}">>

\* A JSON number: digits without a leading zero.
IsNumber(ds) ==
    /\ ds # << >>
    /\ \A k \in 1..Len(ds) : IsDigit(ds[k])
    /\ Len(ds) > 1 => ds[1] # "0"

\* The elements of a JSON array's text (without its brackets); ok is false
\* when the text is not a list of numbers separated by commas.
RECURSIVE ParseArray(_)
ParseArray(text) ==
    IF text = << >> THEN [ok |-> TRUE, value |-> << >>]
    ELSE LET commas == {k \in 1..Len(text) : text[k] = ","}
         IN IF commas = {}
            THEN [ok |-> IsNumber(text),
                  value |-> IF IsNumber(text) THEN <<FromDigits(text)>> ELSE << >>]
            ELSE LET c == CHOOSE k \in commas : \A j \in commas : k <= j
                     first == SubSeq(text, 1, c - 1)
                     rest == ParseArray(SubSeq(text, c + 1, Len(text)))
                 IN IF IsNumber(first) /\ c < Len(text) /\ rest.ok
                    THEN [ok |-> TRUE, value |-> <<FromDigits(first)>> \o rest.value]
                    ELSE [ok |-> FALSE, value |-> << >>]

\* JSON.parse of a file's text: ok is false when it throws; has says
\* whether the object has the key messageIds.
parse(text) ==
    LET n == Len(text)
        fail == [ok |-> FALSE, has |-> FALSE, messageIds |-> << >>]
    IN IF text = <<"{", "}">> THEN [ok |-> TRUE, has |-> FALSE, messageIds |-> << >>]
       ELSE IF n < 10 THEN fail
       ELSE IF \/ SubSeq(text, 1, 4) # <<"{", "messageIds", ":", "[">>
               \/ SubSeq(text, n - 5, n) # <<"]", ",", "lastUpdated", ":", "date", "}">>
       THEN fail
       ELSE LET arr == ParseArray(SubSeq(text, 5, n - 6))
            IN IF arr.ok THEN [ok |-> TRUE, has |-> TRUE, messageIds |-> arr.value]
               ELSE fail

\* new Set(array): the elements in order, without repetitions.
RECURSIVE NewSet(_)
NewSet(array) ==
    IF array = << >> THEN << >>
    ELSE SetAdd(NewSet(SubSeq(array, 1, Len(array) - 1)), array[Len(array)])

\* The file before its first write.
NoFile == [exists |-> FALSE, text |-> << >>]

\* How the file system can answer: it works ("ok"), it refuses to open a
\* file for writing ("readonly"), it truncates the file and then has no
\* room for the text ("full"), or it fails on every read and write
\* ("unreadable").
Disks == {"ok", "readonly", "full", "unreadable"}

\* Mutant: load without its catch.
LoadNoCatch(f, d) ==
    IF ~f.exists THEN [processedIds |-> << >>, threw |-> FALSE]
    ELSE IF d = "unreadable" THEN [processedIds |-> << >>, threw |-> TRUE]
    ELSE [processedIds |-> NewSet(parse(f.text).messageIds), threw |-> ~parse(f.text).ok]

\* new MessageStorage(path) (storage.js:14-44): the ledger read from file
\* f on disk d; threw says whether the constructor raised.  readFileSync
\* and JSON.parse throw into load's catch.
load(f, d) ==
    IF ~f.exists THEN [processedIds |-> << >>, threw |-> FALSE]
    ELSE IF d = "unreadable" THEN [processedIds |-> << >>, threw |-> FALSE]
    ELSE LET parsed == parse(f.text)
         IN IF parsed.ok
            THEN [processedIds |-> NewSet(parsed.messageIds), threw |-> FALSE]
            ELSE [processedIds |-> << >>, threw |-> FALSE]

\* writeFileSync (storage.js:55): the file after the call.
writeFileSync(f, text, d) ==
    CASE d = "ok" -> [exists |-> TRUE, text |-> text]
      [] d = "full" -> [exists |-> TRUE, text |-> << >>]
      [] OTHER -> f

\* Mutant: a failed write empties the in-memory set.
SaveFailedForgets(st) ==
    [st EXCEPT !.file = writeFileSync(@, stringify(st.processedIds), st.disk),
               !.processedIds = IF st.disk = "ok" THEN @ ELSE << >>]

\* save() (storage.js:49-59) of a state st with the fields processedIds,
\* file and disk: the write's error is caught.
save(st) ==
    [st EXCEPT !.file = writeFileSync(@, stringify(st.processedIds), st.disk)]

\* cleanup(maxSize) (storage.js:86-94).
cleanup(st, maxSize) ==
    IF Len(st.processedIds) > maxSize
    THEN save([st EXCEPT !.processedIds = SliceLast(@, maxSize)])
    ELSE st

\* Mutant: markProcessed adds the id and leaves the write for later.
MarkProcessedNoSave(st, messageId) ==
    [st EXCEPT !.processedIds = SetAdd(@, messageId)]

\* markProcessed(messageId) (storage.js:71-74): add, then save.
markProcessed(st, messageId) ==
    save([st EXCEPT !.processedIds = SetAdd(@, messageId)])

(***************************************************************************)
(* Source transport (client.getMessages of GramJS, called at               *)
(* part_000:233 and :264): the newest `limit` messages with id above       *)
(* minId, newest first.  The channel holds the ids 1..top.                 *)
(***************************************************************************)
getMessages(top, minId, limit) ==
    LET n == Min(limit, Max(top - minId, 0))
    IN [k \in 1..n |-> top - k + 1]

\* Array.prototype.reverse.
Reverse(seq) == [k \in 1..Len(seq) |-> seq[Len(seq) - k + 1]]

\* Math.max(...messages.map(m => m.id)) of a non-empty batch.
MaxId(batch) == CHOOSE m \in {batch[k] : k \in 1..Len(batch)} :
                    \A k \in 1..Len(batch) : batch[k] <= m

(***************************************************************************)
(* State.                                                                  *)
(***************************************************************************)
VARIABLES
    isRunning,          \* JobScraperApp.isRunning
    pollInterval,       \* TRUE while the setInterval timer is installed
    reconnectAttempts,  \* JobScraperApp.reconnectAttempts
    processedIds,       \* MessageStorage.processedIds (insertion order)
    file,               \* the ledger file: whether it exists, and its text
    disk,               \* how the file system answers writes
    isConnected,        \* TelegramChannelClient.isConnected
    lastMessageId,      \* TelegramChannelClient.lastMessageId (the cursor)
    botHandler,         \* TRUE once index.js:56 has constructed the forwarder
    isReady,            \* BotHandler.isReady
    exitCode,           \* -1 while the process runs, else process.exit's code
    chanMax,            \* the source channel holds the messages 1..chanMax
    actor,              \* where each handler activation is suspended
    delivered,          \* history: deliveries of each id, all process runs
    deliveredRun,       \* history: deliveries of each id, this process run
    filteredOut,        \* history: ids the filter rejected in this run
    evicted,            \* history: ids cleanup has removed from the ledger
    consecFails,        \* history: failed reconnections since the last success
    unsaved,            \* history: ids marked in this run while the write failed
    faults,             \* calls the environment may still reject
    restarts            \* process starts after the first

vars == <<isRunning, pollInterval, reconnectAttempts, processedIds, file, disk,
          isConnected, lastMessageId, botHandler, isReady, exitCode, chanMax,
          actor, delivered, deliveredRun, filteredOut, evicted, consecFails,
          unsaved,
          faults, restarts>>

hist == <<delivered, deliveredRun, filteredOut, evicted, consecFails, unsaved>>

\* An activation that is not running.
Idle == [pc |-> "idle", kind |-> "none", batch |-> << >>, idx |-> 0, minId |-> 0,
         i |-> 0, then |-> "ret", outcome |-> "none", errAt |-> 0,
         arg |-> << >>, ret |-> << >>, attempt |-> 0, delay |-> 0]

(***************************************************************************)
(* The synchronous code of the handlers.  St is the program's state as a   *)
(* record; each operator takes it and the running activation r, and gives  *)
(* the state and the activation at the next await (or at the return).      *)
(***************************************************************************)
St == [isRunning |-> isRunning, pollInterval |-> pollInterval,
       reconnectAttempts |-> reconnectAttempts, processedIds |-> processedIds,
       file |-> file, isConnected |-> isConnected, lastMessageId |-> lastMessageId,
       botHandler |-> botHandler, isReady |-> isReady, exitCode |-> exitCode,
       disk |-> disk]

At(st, r) == [st |-> st, r |-> r]

\* pollForMessages has returned.  The call of start() (index.js:204) goes
\* on to install the timer (index.js:205); a timer call just ends.
PollReturn(st, r) ==
    IF r.kind = "first"
    THEN At([st EXCEPT !.pollInterval = TRUE], Idle)
    ELSE At(st, Idle)

\* BotHandler.stop (botHandler.js:219-243): isReady ends false whether
\* bot.stop() returns or throws.
BotStop(st) == [st EXCEPT !.isReady = FALSE]

\* stop() after its disconnect (index.js:241-248), then what its caller does:
\* the signal handlers exit with 0, start()'s catch with 1,
\* handleReconnection returns.
StopTail(st, r) ==
    LET st1 == IF st.botHandler THEN BotStop(st) ELSE st
    IN CASE r.then = "exit0" -> At([st1 EXCEPT !.exitCode = 0], Idle)
         [] r.then = "exit1" -> At([st1 EXCEPT !.exitCode = 1], Idle)
         [] OTHER -> PollReturn(st1, r)

\* stop() up to its first await (index.js:224-239); disconnect()
\* (part_000:184-194) awaits the transport only when isConnected.
Stop(st, r, then) ==
    LET st1 == [st EXCEPT !.isRunning = FALSE, !.pollInterval = FALSE]
        r1 == [r EXCEPT !.then = then]
    IN IF st1.isConnected
       THEN At(st1, [r1 EXCEPT !.pc = "stop_disc"])
       ELSE StopTail(st1, r1)

\* reconnect()'s loop body from its top (part_000:295-299), retry i.
ReconnectTry(st, r, i) ==
    IF st.isConnected
    THEN At(st, [r EXCEPT !.pc = "rc_disc", !.i = i])
    ELSE At(st, [r EXCEPT !.pc = "rc_delay", !.i = i])

\* reconnect's parameter maxRetries (part_000:294): the caller's argument,
\* or the default 3 when the call passes none.
MaxRetriesOf(r) == IF r.arg = << >> THEN reconnectMaxRetries ELSE r.arg[1]

\* A call of the reader by a caller other than the orchestrator has ended.
ReaderReturn(st, r, outcome) ==
    At(st, [r EXCEPT !.pc = "reader", !.outcome = outcome])

\* reconnect(maxRetries) up to its first await, for a caller other than the
\* orchestrator (part_000:294-299): without a retry the loop is skipped
\* and the function returns.
reconnect(st, r) ==
    IF 0 < MaxRetriesOf(r) THEN ReconnectTry(st, r, 0)
    ELSE ReaderReturn(st, r, "returned")

\* Mutant: handleReconnection does not test the ceiling of the attempts.
HandleReconnectionNoCeiling(st, r) ==
    ReconnectTry([st EXCEPT !.reconnectAttempts = @ + 1],
                 [r EXCEPT !.attempt = st.reconnectAttempts + 1], 0)

\* handleReconnection up to its first await (index.js:154-165); the
\* activation keeps the number of its attempt, as the log line of
\* index.js:162 prints it.
handleReconnection(st, r) ==
    IF st.reconnectAttempts >= maxReconnectAttempts
    THEN Stop(st, r, "ret")
    ELSE ReconnectTry([st EXCEPT !.reconnectAttempts = @ + 1],
                      [r EXCEPT !.attempt = st.reconnectAttempts + 1], 0)

\* String.prototype.includes.
includes(text, sub) ==
    \E p \in 0..(Len(text) - Len(sub)) : SubSeq(text, p + 1, p + Len(sub)) = sub

\* Messages of the errors the source transport raises (the rejections of
\* client.getEntity and client.getMessages), and the message of the
\* error getNewMessages throws itself (part_000:227).
TransportErrors ==
    { <<"c","o","n","n","e","c","t","i","o","n"," ","r","e","s","e","t">>,
      <<"C","o","n","n","e","c","t","i","o","n"," ","c","l","o","s","e","d">>,
      <<"T","I","M","E","O","U","T">> }
ClientNotConnected ==
    <<"C","l","i","e","n","t"," ","n","o","t"," ","c","o","n","n","e","c","t","e","d">>

\* The test of pollForMessages' catch (index.js:145).
IsConnectionError(message) ==
    \/ includes(message, <<"n","o","t"," ","c","o","n","n","e","c","t","e","d">>)
    \/ includes(message, <<"c","o","n","n","e","c","t","i","o","n">>)

\* pollForMessages' catch (index.js:141-148): conn is the outcome of its
\* test of the error's message.
PollCatch(st, r, conn) ==
    IF conn THEN handleReconnection(st, r) ELSE PollReturn(st, r)

\* pollForMessages up to its first await (index.js:106-118, part_000:224-230
\* and 199-206).
pollForMessages(st, r) ==
    IF ~st.isRunning THEN PollReturn(st, r)
    ELSE IF ~st.isConnected
    THEN PollCatch(st, r, IsConnectionError(ClientNotConnected))
    ELSE At(st, [r EXCEPT !.pc = "getEntity"])

\* storage.markProcessed(messageId) (storage.js:71-74): add, then save.
Mark(st, id) ==
    markProcessed(st, id)

\* Mutant: forwardMessage does not test the ready flag.
ForwardEntryAlways(st) == TRUE

\* The guard of forwardMessage (botHandler.js:89-91): the call goes on
\* only when the forwarder is ready, and throws otherwise.
ForwardEntry(st) == st.isReady

\* Mutant: the skip test is missing.
SkipTestNever(st, id) == FALSE

\* The skip test of processMessage (index.js:75).
SkipTest(st, id) == isProcessed(st.processedIds, id)

\* Mutant: the filter rejects nothing.
FilterTestNever(id) == FALSE

\* The channel's messages that isJobPost accepts (jobFilter.js:77-97).
Matching == {id \in MsgIds : isJobPost(MessageOf(id))}

\* The filter test of processMessage (index.js:81).
FilterTest(id) == id \notin Matching

\* Mutant: a non-matching message is not marked.
RejectMessageNoMark(st, id) == st

\* The non-matching branch of processMessage (index.js:82-85).
RejectMessage(st, id) == Mark(st, id)

\* processMessage up to its first await or its return (index.js:70-101,
\* botHandler.js:87-94) for message idx of the batch.
processMessage(st, r, idx) ==
    LET id == r.batch[idx]
        r1 == [r EXCEPT !.idx = idx]
    IN IF SkipTest(st, id)
       THEN At(st, [r1 EXCEPT !.pc = "delay", !.outcome = "skipped"])
       ELSE IF FilterTest(id)
       THEN At(RejectMessage(st, id),
               [r1 EXCEPT !.pc = "delay", !.outcome = "rejected"])
       ELSE IF ~ForwardEntry(st)
       THEN At(st, [r1 EXCEPT !.pc = "delay", !.outcome = "failed",
                              !.errAt = IF @ = 0 THEN idx ELSE @])
       ELSE At(st, [r1 EXCEPT !.pc = "validate", !.outcome = "forwarding"])

\* Mutant: the catch marks the message processed.
ForwardFailedMarks(st, r) ==
    At(Mark(st, r.batch[r.idx]),
       [r EXCEPT !.pc = "delay", !.outcome = "failed",
                 !.errAt = IF @ = 0 THEN r.idx ELSE @])

\* Mutant: the failure leaves processMessage and ends the pass.
ForwardFailedAborts(st, r) == PollReturn(st, r)

\* processMessage's catch after a failed forward (index.js:97-100).
ForwardFailed(st, r) ==
    At(st, [r EXCEPT !.pc = "delay", !.outcome = "failed",
                     !.errAt = IF @ = 0 THEN r.idx ELSE @])

\* Mutant: a forwarded message is not marked.
ForwardDoneNoMark(st, r) ==
    At(st, [r EXCEPT !.pc = "delay", !.outcome = "forwarded"])

\* processMessage after forwardMessage has returned (index.js:92-96).
ForwardDone(st, r) ==
    At(Mark(st, r.batch[r.idx]),
       [r EXCEPT !.pc = "delay", !.outcome = "forwarded"])

\* The end of pollForMessages' loop (index.js:134-140); clean is the
\* outcome of Math.random() < 0.1.
PollLoopEnd(st, r, clean) ==
    LET st1 == [st EXCEPT !.reconnectAttempts = 0]
        st2 == IF clean
               THEN cleanup(st1, CleanupCeiling)
               ELSE st1
    IN PollReturn(st2, r)

\* The end of start()'s backfill loop (index.js:199-204).
BackfillEnd(st, r) ==
    pollForMessages([st EXCEPT !.isRunning = TRUE],
                    [Idle EXCEPT !.kind = "first"])

\* The loop's next iteration, or its end.
LoopNext(st, r, clean) ==
    IF r.idx < Len(r.batch) THEN processMessage(st, r, r.idx + 1)
    ELSE IF r.kind = "backfill" THEN BackfillEnd(st, r)
    ELSE PollLoopEnd(st, r, clean)

\* Math.pow(2, n) for an integer n >= 0.
RECURSIVE Pow2(_)
Pow2(n) == IF n = 0 THEN 1 ELSE 2 * Pow2(n - 1)

\* Math.min(5000 * Math.pow(2, attempts - 1), 60000) (index.js:172); for
\* attempts = 0 the power is 1/2 and the product 2500.
BackoffDelay(attempts) ==
    Min(IF attempts >= 1 THEN 5000 * Pow2(attempts - 1)
        ELSE 5000 \div Pow2(1 - attempts), 60000)

\* Mutant: initialize goes on to the forwarder after a failed connect.
ConnectFailedGoesOn(st, r) ==
    IF r.kind = "init"
    THEN At([st EXCEPT !.isConnected = FALSE, !.botHandler = TRUE],
            [r EXCEPT !.pc = "botinit"])
    ELSE At([st EXCEPT !.isConnected = FALSE],
            [r EXCEPT !.pc = "backoff", !.delay = BackoffDelay(st.reconnectAttempts)])

\* Mutant: a failed connect() forgets the cursor.
ConnectFailedResetsCursor(st, r) ==
    LET st1 == [st EXCEPT !.isConnected = FALSE, !.lastMessageId = 0]
    IN IF r.kind = "init" THEN Stop(st1, r, "exit1")
       ELSE IF r.i = MaxRetriesOf(r) - 1
       THEN IF r.kind = "reconnect" THEN ReaderReturn(st1, r, "threw")
            ELSE At(st1, [r EXCEPT !.pc = "backoff",
                                   !.delay = BackoffDelay(st1.reconnectAttempts)])
       ELSE ReconnectTry(st1, r, r.i + 1)

\* connect() has thrown (part_000:174-178): initialize rethrows to start's
\* catch (index.js:214-217); reconnect retries or rethrows to
\* handleReconnection's catch, which computes its delay from the counter as
\* it is now and waits (part_000:303-308, index.js:168-174).
ConnectFailed(st, r) ==
    LET st1 == [st EXCEPT !.isConnected = FALSE]
    IN IF r.kind = "init" THEN Stop(st1, r, "exit1")
       ELSE IF r.i = MaxRetriesOf(r) - 1
       THEN IF r.kind = "reconnect" THEN ReaderReturn(st1, r, "threw")
            ELSE At(st1, [r EXCEPT !.pc = "backoff",
                                   !.delay = BackoffDelay(st1.reconnectAttempts)])
       ELSE ReconnectTry(st1, r, r.i + 1)

\* connect() has returned (part_000:172-173): initialize goes on to the
\* forwarder (index.js:56-57); reconnect returns true (part_000:301-302),
\* and handleReconnection resets the counter (index.js:166-167).
ConnectDone(st, r) ==
    IF r.kind = "init"
    THEN At([st EXCEPT !.botHandler = TRUE], [r EXCEPT !.pc = "botinit"])
    ELSE IF r.kind = "reconnect" THEN ReaderReturn(st, r, "returned")
    ELSE PollReturn([st EXCEPT !.reconnectAttempts = 0], r)

\* getRecentMessages up to its first await (index.js:187, part_000:256-262).
getRecentMessages(st, r) ==
    IF ~st.isConnected THEN Stop(st, r, "exit1")
    ELSE At(st, [r EXCEPT !.pc = "getEntity", !.kind = "backfill"])

\* Mutant: getRecentMessages leaves the cursor where it was.
RecentDoneNoCursor(st, r, messages) ==
    LET r1 == [r EXCEPT !.batch = Reverse(messages), !.idx = 0]
    IN IF Len(messages) = 0 THEN BackfillEnd(st, r1)
       ELSE processMessage(st, r1, 1)

\* Mutant: the backfill walks the backlog in the order the reader returned.
RecentDoneNoReverse(st, r, messages) ==
    LET st1 == IF Len(messages) > 0
               THEN [st EXCEPT !.lastMessageId = MaxId(messages)]
               ELSE st
        r1 == [r EXCEPT !.batch = messages, !.idx = 0]
    IN IF Len(messages) = 0 THEN BackfillEnd(st1, r1)
       ELSE processMessage(st1, r1, 1)

\* getRecentMessages has returned `messages` (part_000:268-274,
\* index.js:191-197).
RecentDone(st, r, messages) ==
    LET st1 == IF Len(messages) > 0
               THEN [st EXCEPT !.lastMessageId = MaxId(messages)]
               ELSE st
        r1 == [r EXCEPT !.batch = Reverse(messages), !.idx = 0]
    IN IF Len(messages) = 0 THEN BackfillEnd(st1, r1)
       ELSE processMessage(st1, r1, 1)

\* Mutant: getNewMessages does not advance the cursor.
NewDoneNoAdvance(st, r, messages) ==
    LET r1 == [r EXCEPT !.batch = messages, !.idx = 0]
    IN IF Len(messages) = 0 THEN PollReturn(st, r1)
       ELSE processMessage(st, r1, 1)

\* getNewMessages has returned `messages` (part_000:238-246,
\* index.js:120-129).
NewDone(st, r, messages) ==
    LET st1 == IF Len(messages) > 0 /\ MaxId(messages) > st.lastMessageId
               THEN [st EXCEPT !.lastMessageId = MaxId(messages)]
               ELSE st
        r1 == [r EXCEPT !.batch = messages, !.idx = 0]
    IN IF Len(messages) = 0 THEN PollReturn(st1, r1)
       ELSE processMessage(st1, r1, 1)

(***************************************************************************)
(* Actions: one per event that resumes a handler.                          *)
(***************************************************************************)
Running == exitCode = -1

\* The program's variables after a handler run that ended at res.
Apply(res, a) ==
    /\ isRunning' = res.st.isRunning
    /\ pollInterval' = res.st.pollInterval
    /\ reconnectAttempts' = res.st.reconnectAttempts
    /\ processedIds' = res.st.processedIds
    /\ file' = res.st.file
    /\ isConnected' = res.st.isConnected
    /\ lastMessageId' = res.st.lastMessageId
    /\ botHandler' = res.st.botHandler
    /\ isReady' = res.st.isReady
    /\ exitCode' = res.st.exitCode
    /\ actor' = [actor EXCEPT ![a] = res.r]

\* History: the run has taken a message into processMessage; the ids the
\* filter rejected are recorded from the outcome, the evicted ones from
\* the ledger.
Unsaved(res) ==
    IF disk = "ok" THEN unsaved
    ELSE unsaved \cup {id \in MsgIds : /\ ~isProcessed(processedIds, id)
                                       /\ isProcessed(res.st.processedIds, id)}

Record(res) ==
    /\ filteredOut' = IF res.r.pc = "delay" /\ res.r.outcome = "rejected"
                      THEN filteredOut \cup {res.r.batch[res.r.idx]}
                      ELSE filteredOut
    /\ evicted' = evicted \cup
                    {id \in MsgIds : /\ isProcessed(processedIds, id)
                                     /\ ~isProcessed(res.st.processedIds, id)}
    /\ unsaved' = Unsaved(res)

Inc(n) == Min(n + 1, MaxCount)

\* The environment answers a call: it resolves (ok) or, while the budget of
\* faults lasts, rejects.
Answer(ok) ==
    /\ ok \/ faults > 0
    /\ faults' = IF ok THEN faults ELSE faults - 1

\* main(): new JobScraperApp(), start(), initialize() up to the await of
\* the transport's connect (index.js:17-53, storage.js:14-44, part_000:142-159).
Start ==
    /\ Running
    /\ actor[1].pc = "start"
    /\ LET storage == load(file, disk)
           st == [St EXCEPT !.processedIds = storage.processedIds]
           r == [Idle EXCEPT !.kind = "init"]
       IN Apply(IF storage.threw THEN Stop(st, r, "exit1")
                ELSE At(st, [r EXCEPT !.pc = "connect"]), 1)
    /\ UNCHANGED <<disk, chanMax, hist, faults, restarts>>

\* client.connect() resolves or rejects (part_000:159-163 and 174-178).
ConnectResolve(a) ==
    /\ Running
    /\ actor[a].pc = "connect"
    /\ \E ok \in BOOLEAN :
        /\ Answer(ok)
        /\ Apply(IF ok THEN At([St EXCEPT !.isConnected = TRUE],
                               [actor[a] EXCEPT !.pc = "signin"])
                 ELSE ConnectFailed(St, actor[a]), a)
        /\ consecFails' = IF ~ok /\ actor[a].kind # "init"
                             /\ actor[a].i = reconnectMaxRetries - 1
                          THEN Min(consecFails + 1, maxReconnectAttempts + 1)
                          ELSE consecFails
    /\ UNCHANGED <<disk, chanMax, delivered, deliveredRun, filteredOut, evicted, unsaved,
                   restarts>>

\* signIn() resolves or rejects (part_000:163-178).
SignInResolve(a) ==
    /\ Running
    /\ actor[a].pc = "signin"
    /\ \E ok \in BOOLEAN :
        /\ Answer(ok)
        /\ Apply(IF ok THEN ConnectDone(St, actor[a])
                 ELSE ConnectFailed(St, actor[a]), a)
        /\ consecFails' = IF actor[a].kind = "init" THEN consecFails
                          ELSE IF ok THEN 0
                          ELSE IF actor[a].i = reconnectMaxRetries - 1
                          THEN Min(consecFails + 1, maxReconnectAttempts + 1)
                          ELSE consecFails
    /\ UNCHANGED <<disk, chanMax, delivered, deliveredRun, filteredOut, evicted, unsaved,
                   restarts>>

\* bot.telegram.getMe() of BotHandler.initialize resolves or rejects
\* (botHandler.js:22-39), then start() calls getRecentMessages.
BotInitResolve(a) ==
    /\ Running
    /\ actor[a].pc = "botinit"
    /\ \E ok \in BOOLEAN :
        /\ Answer(ok)
        /\ Apply(IF ok THEN getRecentMessages([St EXCEPT !.isReady = TRUE], actor[a])
                 ELSE Stop([St EXCEPT !.isReady = FALSE], actor[a], "exit1"), a)
    /\ UNCHANGED <<disk, chanMax, hist, restarts>>

\* client.getEntity() of getChannel resolves or rejects (part_000:206-217);
\* on success the fetch is issued with the cursor as it is now
\* (part_000:233-236 and 264-266).
EntityResolve(a) ==
    /\ Running
    /\ actor[a].pc = "getEntity"
    /\ \E ok \in BOOLEAN :
      \E error \in IF ok THEN {<< >>} ELSE TransportErrors :
        /\ Answer(ok)
        /\ Apply(IF ok THEN At(St, [actor[a] EXCEPT !.pc = "getMessages",
                                                    !.minId = lastMessageId])
                 ELSE IF actor[a].kind = "backfill" THEN Stop(St, actor[a], "exit1")
                 ELSE PollCatch(St, actor[a], IsConnectionError(error)), a)
    /\ UNCHANGED <<disk, chanMax, hist, restarts>>

\* client.getMessages() resolves or rejects.
MessagesResolve(a) ==
    /\ Running
    /\ actor[a].pc = "getMessages"
    /\ \E ok \in BOOLEAN :
      \E error \in IF ok THEN {<< >>} ELSE TransportErrors :
        LET res == IF actor[a].kind = "backfill"
                   THEN IF ok
                        THEN RecentDone(St, actor[a], getMessages(chanMax, 0, RecentLimit))
                        ELSE Stop(St, actor[a], "exit1")
                   ELSE IF ok
                        THEN NewDone(St, actor[a],
                                     getMessages(chanMax, actor[a].minId, PollLimit))
                        ELSE PollCatch(St, actor[a], IsConnectionError(error))
        IN Answer(ok) /\ Apply(res, a) /\ Record(res)
    /\ UNCHANGED <<disk, chanMax, delivered, deliveredRun, consecFails, restarts>>

\* validateChat() of forwardMessage resolves or rejects (botHandler.js:94).
ValidateResolve(a) ==
    /\ Running
    /\ actor[a].pc = "validate"
    /\ \E ok \in BOOLEAN :
        /\ Answer(ok)
        /\ Apply(IF ok THEN At(St, [actor[a] EXCEPT !.pc = "send"])
                 ELSE ForwardFailed(St, actor[a]), a)
    /\ UNCHANGED <<disk, chanMax, hist, restarts>>

\* bot.telegram.sendMessage() resolves (the message is delivered) or
\* rejects (botHandler.js:105-141).
SendResolve(a) ==
    /\ Running
    /\ actor[a].pc = "send"
    /\ \E ok \in BOOLEAN :
        LET id == actor[a].batch[actor[a].idx]
        IN /\ Answer(ok)
           /\ Apply(IF ok THEN ForwardDone(St, actor[a])
                    ELSE ForwardFailed(St, actor[a]), a)
           /\ delivered' = IF ok THEN [delivered EXCEPT ![id] = Inc(@)] ELSE delivered
           /\ deliveredRun' = IF ok THEN [deliveredRun EXCEPT ![id] = Inc(@)]
                              ELSE deliveredRun
           /\ unsaved' = Unsaved(IF ok THEN ForwardDone(St, actor[a])
                                  ELSE ForwardFailed(St, actor[a]))
    /\ UNCHANGED <<disk, chanMax, filteredOut, evicted, consecFails, restarts>>

\* The delay after a message has elapsed (index.js:131 and 196); clean is
\* the outcome of Math.random() < 0.1 (index.js:138), read at the loop's end.
DelayResolveWith(a, clean) ==
    /\ Running
    /\ actor[a].pc = "delay"
    /\ LET res == LoopNext(St, actor[a], clean)
       IN Apply(res, a) /\ Record(res)
    /\ UNCHANGED <<disk, chanMax, delivered, deliveredRun, consecFails, faults, restarts>>

DelayResolve(a) == \E clean \in BOOLEAN : DelayResolveWith(a, clean)

\* client.disconnect() inside reconnect() resolves or rejects
\* (part_000:184-194 and 298-299).
ReconnectDisconnectResolve(a) ==
    /\ Running
    /\ actor[a].pc = "rc_disc"
    /\ \E ok \in BOOLEAN :
        /\ Answer(ok)
        /\ Apply(At(IF ok THEN [St EXCEPT !.isConnected = FALSE] ELSE St,
                    [actor[a] EXCEPT !.pc = "rc_delay"]), a)
    /\ UNCHANGED <<disk, chanMax, hist, restarts>>

\* reconnect()'s delay has elapsed: connect() is called (part_000:299-300).
ReconnectDelayResolve(a) ==
    /\ Running
    /\ actor[a].pc = "rc_delay"
    /\ Apply(At(St, [actor[a] EXCEPT !.pc = "connect"]), a)
    /\ UNCHANGED <<disk, chanMax, hist, faults, restarts>>

\* handleReconnection's backoff has elapsed (index.js:174-176).
BackoffResolve(a) ==
    /\ Running
    /\ actor[a].pc = "backoff"
    /\ Apply(PollReturn(St, actor[a]), a)
    /\ UNCHANGED <<disk, chanMax, hist, faults, restarts>>

\* client.disconnect() inside stop() resolves or rejects (index.js:237-239).
StopDisconnectResolve(a) ==
    /\ Running
    /\ actor[a].pc = "stop_disc"
    /\ \E ok \in BOOLEAN :
        /\ Answer(ok)
        /\ Apply(StopTail(IF ok THEN [St EXCEPT !.isConnected = FALSE] ELSE St,
                          actor[a]), a)
    /\ UNCHANGED <<disk, chanMax, hist, restarts>>

\* The interval timer fires (index.js:205-209).
Tick ==
    /\ Running
    /\ pollInterval
    /\ \E a \in Slots :
        /\ actor[a].pc = "idle"
        /\ \A b \in Slots : b < a => actor[b].pc # "idle"
        /\ Apply(pollForMessages(St, [Idle EXCEPT !.kind = "tick"]), a)
    /\ UNCHANGED <<disk, chanMax, hist, faults, restarts>>

\* SIGINT or SIGTERM arrives (index.js:259-269).
Signal ==
    /\ Running
    /\ actor[0].pc = "idle"
    /\ actor[1].pc # "start"
    /\ Apply(Stop(St, [Idle EXCEPT !.kind = "signal"], "exit0"), 0)
    /\ UNCHANGED <<disk, chanMax, hist, faults, restarts>>

\* A message is posted to the source channel.
Post ==
    /\ chanMax < MaxMsgId
    /\ chanMax' = chanMax + 1
    /\ UNCHANGED <<isRunning, pollInterval, reconnectAttempts, processedIds, file, disk,
                   isConnected, lastMessageId, botHandler, isReady, exitCode, actor,
                   hist, faults, restarts>>

Fresh == [a \in Actors |-> IF a = 1 THEN [Idle EXCEPT !.pc = "start"] ELSE Idle]

\* The state after `new JobScraperApp()` (index.js:17-26, 256) with the
\* ledger file f on the disk.
InitState(budget, f) ==
    /\ isRunning = FALSE
    /\ pollInterval = FALSE
    /\ reconnectAttempts = 0
    /\ processedIds = << >>
    /\ file = f
    /\ disk = "ok"
    /\ isConnected = FALSE
    /\ lastMessageId = 0
    /\ botHandler = FALSE
    /\ isReady = FALSE
    /\ exitCode = -1
    /\ chanMax = 0
    /\ actor = Fresh
    /\ delivered = [id \in MsgIds |-> 0]
    /\ deliveredRun = [id \in MsgIds |-> 0]
    /\ filteredOut = {}
    /\ unsaved = {}
    /\ evicted = {}
    /\ consecFails = 0
    /\ faults = budget
    /\ restarts = 0

InitWith(budget) == InitState(budget, NoFile)

Init == InitWith(MaxFaults)

\* The process is killed or has exited, and is started again (main() runs
\* anew: index.js:255-289).  Memory is lost, the ledger file is kept.  A
\* sendMessage that was in flight may or may not have reached the
\* destination.
Restart ==
    /\ restarts < MaxRestarts
    /\ actor[1].pc # "start"
    /\ \E lost \in SUBSET {a \in Slots : actor[a].pc = "send"} :
        delivered' = [id \in MsgIds |->
            IF \E a \in Slots : /\ actor[a].pc = "send" /\ a \notin lost
                                /\ actor[a].batch[actor[a].idx] = id
            THEN Inc(delivered[id]) ELSE delivered[id]]
    /\ isRunning' = FALSE
    /\ pollInterval' = FALSE
    /\ reconnectAttempts' = 0
    /\ processedIds' = << >>
    /\ isConnected' = FALSE
    /\ lastMessageId' = 0
    /\ botHandler' = FALSE
    /\ isReady' = FALSE
    /\ exitCode' = -1
    /\ actor' = Fresh
    /\ deliveredRun' = [id \in MsgIds |-> 0]
    /\ filteredOut' = {}
    /\ unsaved' = {}
    /\ consecFails' = 0
    /\ restarts' = restarts + 1
    /\ UNCHANGED <<file, disk, chanMax, evicted, faults>>

\* The events of a run apart from the end of a backoff.
Pipeline ==
    \/ Start
    \/ \E a \in Actors : ConnectResolve(a)
    \/ \E a \in Actors : SignInResolve(a)
    \/ \E a \in Actors : BotInitResolve(a)
    \/ \E a \in Actors : EntityResolve(a)
    \/ \E a \in Actors : MessagesResolve(a)
    \/ \E a \in Actors : ValidateResolve(a)
    \/ \E a \in Actors : SendResolve(a)
    \/ \E a \in Actors : DelayResolve(a)
    \/ \E a \in Actors : ReconnectDisconnectResolve(a)
    \/ \E a \in Actors : ReconnectDelayResolve(a)
    \/ \E a \in Actors : StopDisconnectResolve(a)
    \/ Tick
    \/ Post

Next ==
    \/ Pipeline
    \/ \E a \in Actors : BackoffResolve(a)

\* One process run, from main() to its end.
Spec == Init /\ [][Next]_vars

\* Process runs that a termination signal can end, with too few faults to
\* reach a backoff.
InitSignal == InitWith(FewFaults)
NextSignal == Pipeline \/ Signal
SpecSignal == InitSignal /\ [][NextSignal]_vars

\* One process run on a channel without messages, with enough faults to
\* exhaust the reconnection attempts.
InitReconnect == InitWith(ReconnectFaults)
NextReconnect ==
    \/ Start
    \/ \E a \in Actors : ConnectResolve(a)
    \/ \E a \in Actors : SignInResolve(a)
    \/ \E a \in Actors : BotInitResolve(a)
    \/ \E a \in Actors : EntityResolve(a)
    \/ \E a \in Actors : MessagesResolve(a)
    \/ \E a \in Actors : ReconnectDisconnectResolve(a)
    \/ \E a \in Actors : ReconnectDelayResolve(a)
    \/ \E a \in Actors : BackoffResolve(a)
    \/ \E a \in Actors : StopDisconnectResolve(a)
    \/ Tick
SpecReconnect == InitReconnect /\ [][NextReconnect]_vars

\* Process runs that can be killed and started again, with too few faults
\* to reach a backoff.
InitRestart == InitWith(FewFaults)
NextRestart == Pipeline \/ Restart
SpecRestart == InitRestart /\ [][NextRestart]_vars

\* One process run in an environment that rejects no call, in which the
\* timer keeps firing, every pending call is answered, every delay elapses
\* and Math.random() < 0.1 (index.js:138) is true infinitely often when it
\* is drawn infinitely often.
InitLive == InitWith(0)
NextLive ==
    \/ Start
    \/ \E a \in Actors : ConnectResolve(a)
    \/ \E a \in Actors : SignInResolve(a)
    \/ \E a \in Actors : BotInitResolve(a)
    \/ \E a \in Actors : EntityResolve(a)
    \/ \E a \in Actors : MessagesResolve(a)
    \/ \E a \in Actors : ValidateResolve(a)
    \/ \E a \in Actors : SendResolve(a)
    \/ \E a \in Actors : DelayResolve(a)
    \/ Tick
    \/ Post
\* The step that ends a poll pass with the cleanup (index.js:138-140).
CleanupBranch(a) ==
    /\ actor[a].kind \in {"first", "tick"}
    /\ actor[a].idx = Len(actor[a].batch)
    /\ DelayResolveWith(a, TRUE)
FairLive ==
    /\ WF_vars(Start)
    /\ WF_vars(Tick)
    /\ \A a \in Slots :
        /\ WF_vars(ConnectResolve(a))
        /\ WF_vars(SignInResolve(a))
        /\ WF_vars(BotInitResolve(a))
        /\ WF_vars(EntityResolve(a))
        /\ WF_vars(MessagesResolve(a))
        /\ WF_vars(ValidateResolve(a))
        /\ WF_vars(SendResolve(a))
        /\ WF_vars(DelayResolve(a))
        /\ SF_vars(CleanupBranch(a))
SpecLive == InitLive /\ [][NextLive]_vars /\ FairLive

\* The file system starts or stops failing.
DiskChange ==
    /\ faults > 0
    /\ faults' = faults - 1
    /\ \E d \in Disks : d # disk /\ disk' = d
    /\ UNCHANGED <<isRunning, pollInterval, reconnectAttempts, processedIds, file,
                   isConnected, lastMessageId, botHandler, isReady, exitCode, chanMax,
                   actor, hist, restarts>>

\* One process run on a file system that can fail, with too few faults
\* for a reconnection to be given up.
InitDisk == InitWith(FewFaults)
NextDisk == Pipeline \/ DiskChange
SpecDisk == InitDisk /\ [][NextDisk]_vars

(***************************************************************************)
(* The filter on its own: a caller that builds a JobFilter with a keyword  *)
(* list and calls isJobPost with any message.  actor[1] records the call   *)
(* and its outcome.                                                        *)
(***************************************************************************)
\* `if (!message)` (jobFilter.js:22): the message is null or undefined.
NullMessage == [kind |-> "null", message |-> << >>, caption |-> << >>,
                entities |-> Absent, replyTo |-> Absent]
\* An entity with a text, and a null in the entities array.
Entity(text) == [kind |-> "object", text |-> text]
NullEntity == [kind |-> "null", text |-> << >>]
\* A truthy entities value without forEach.
NotAnArray == [kind |-> "other", items |-> << >>, message |-> << >>]

Bodies ==
    { << >>,
      <<"R","e","a","c","t"," ","d","e","v","e","l","o","p","e","r"," ","n","e","e","d","e","d">>,
      <<"r","e","a","c","t","o","r"," ","m","a","i","n","t","e","n","a","n","c","e">>,
      <<"r","e","a","c","t","i","n","g">>,
      <<"c","+","+"," ","d","e","v">> }
Captions == { << >>, <<"d","e","v"," ","r","e","a","c","t">> }
EntityLists ==
    { Absent, Array(<<Entity(<<"r","e","a","c","t">>)>>), Array(<<NullEntity>>), NotAnArray }
Replies == { Absent, ReplyTo(<< >>), ReplyTo(<<"r","e","a","c","t">>) }
Messages ==
    {NullMessage} \cup
    {Message(m, c, e, r) : m \in Bodies, c \in Captions, e \in EntityLists,
                           r \in Replies}

\* Keyword lists as config.keywords can hold them (config.js:415-423).
KeywordLists ==
    { <<<<"R","e","a","c","t">>>>,
      keywords,
      <<<<"c","+","+">>, <<"r","e","a","c","t">>>>,
      <<<<"r","e","a","c","t">>, <<"c","+","+">>>> }

\* new JobFilter(kws).isJobPost(m).
FilterCall ==
    /\ \E kws \in KeywordLists, m \in Messages :
        actor' = [actor EXCEPT ![1] =
                     [Idle EXCEPT !.pc = "filter", !.kind = "isJobPost",
                                  !.arg = <<kws, m>>,
                                  !.ret = isJobPostOf(toLowerCaseAll(kws), m)]]
    /\ UNCHANGED <<isRunning, pollInterval, reconnectAttempts, processedIds, file,
                   disk, isConnected, lastMessageId, botHandler, isReady, exitCode,
                   chanMax, hist, faults, restarts>>

InitFilter == InitWith(0)
NextFilter == FilterCall
SpecFilter == InitFilter /\ [][NextFilter]_vars

(***************************************************************************)
(* The source reader on its own: a caller that calls reconnect(maxRetries) *)
(* with any number of retries, on a transport that can reject connect(),   *)
(* signIn() and disconnect().  actor[1] is the call.                       *)
(***************************************************************************)
RetryCounts == 0..reconnectMaxRetries

\* reader.reconnect(n, delay).
ReaderReconnect ==
    /\ actor[1].pc \in {"start", "reader"}
    /\ \E n \in RetryCounts :
        Apply(reconnect(St, [Idle EXCEPT !.kind = "reconnect", !.arg = <<n>>]), 1)
    /\ UNCHANGED <<disk, chanMax, hist, faults, restarts>>

InitReader == InitWith(MaxFaults)
NextReader ==
    \/ ReaderReconnect
    \/ \E a \in Actors : ReconnectDisconnectResolve(a)
    \/ \E a \in Actors : ReconnectDelayResolve(a)
    \/ \E a \in Actors : ConnectResolve(a)
    \/ \E a \in Actors : SignInResolve(a)
SpecReader == InitReader /\ [][NextReader]_vars

(***************************************************************************)
(* The ledger on its own: a caller that constructs MessageStorage and      *)
(* calls markProcessed and cleanup with any arguments, on a disk that can  *)
(* refuse writes, in a process that can be killed in the middle of a       *)
(* write.  actor[1] records the caller's last call.                        *)
(***************************************************************************)
\* Ids the caller marks: as many as MsgIds, of one digit and of two.
LedgerIds == {id + 8 : id \in MsgIds}

\* Ceilings the caller passes to cleanup.
Ceilings == 0..CleanupCeiling

\* Files found at the first start: none, an empty one, an object without
\* messageIds, one with a repeated id, and texts that are not JSON.
StartFiles ==
    { NoFile,
      [exists |-> TRUE, text |-> << >>],
      [exists |-> TRUE, text |-> <<"{", "}">>],
      [exists |-> TRUE, text |-> <<"{", "messageIds", ":", "[", "1", ",", "1", "]",
                                   ",", "lastUpdated", ":", "date", "}">>],
      [exists |-> TRUE, text |-> <<"{", "messageIds", ":", "[", "0", "1", "]",
                                   ",", "lastUpdated", ":", "date", "}">>],
      [exists |-> TRUE, text |-> <<"date">>] }

StorageUnchanged ==
    UNCHANGED <<isRunning, pollInterval, reconnectAttempts, isConnected,
                lastMessageId, botHandler, isReady, exitCode, chanMax, hist,
                restarts>>

\* new MessageStorage(path) (storage.js:14-18).
StorageNew ==
    /\ actor[1].pc = "start"
    /\ processedIds' = load(file, disk).processedIds
    /\ actor' = [actor EXCEPT ![1] =
                    [Idle EXCEPT !.pc = IF load(file, disk).threw THEN "threw" ELSE "storage",
                                 !.kind = "new"]]
    /\ UNCHANGED <<file, disk, faults>>
    /\ StorageUnchanged

\* storage.markProcessed(id).
StorageMark ==
    /\ actor[1].pc = "storage"
    /\ \E id \in LedgerIds :
        LET st == markProcessed(St, id)
        IN /\ processedIds' = st.processedIds
           /\ file' = st.file
           /\ actor' = [actor EXCEPT ![1] =
                           [Idle EXCEPT !.pc = "storage", !.kind = "markProcessed",
                                        !.batch = <<id>>, !.idx = 1]]
    /\ UNCHANGED <<disk, faults>>
    /\ StorageUnchanged

\* storage.cleanup(c).
StorageCleanup ==
    /\ actor[1].pc = "storage"
    /\ \E c \in Ceilings :
        LET st == cleanup(St, c)
        IN /\ processedIds' = st.processedIds
           /\ file' = st.file
           /\ actor' = [actor EXCEPT ![1] =
                           [Idle EXCEPT !.pc = "storage", !.kind = "cleanup", !.i = c]]
    /\ UNCHANGED <<disk, faults>>
    /\ StorageUnchanged

\* The prefixes a write of `text` leaves when the process dies in it.
Torn(text) == {SubSeq(text, 1, k) : k \in 0..(Len(text) - 1)}

\* The process ends and is started again; it may have been killed in the
\* middle of its last write (writeFileSync is not atomic).
StorageCrash ==
    /\ actor[1].pc # "start"
    /\ \E f \in {file} \cup {[exists |-> TRUE, text |-> t] : t \in Torn(file.text)} :
        file' = f
    /\ processedIds' = << >>
    /\ actor' = Fresh
    /\ UNCHANGED <<disk, faults>>
    /\ StorageUnchanged

InitStorage == \E f \in StartFiles : InitState(FewFaults, f)
NextStorage ==
    \/ StorageNew
    \/ StorageMark
    \/ StorageCleanup
    \/ DiskChange
    \/ StorageCrash
SpecStorage == InitStorage /\ [][NextStorage]_vars

(***************************************************************************)
(* The forwarder on its own: callers that construct BotHandler and call    *)
(* initialize, validateChat, forwardMessage and stop in any order, with    *)
(* calls in flight at the same time.  actor[a] is caller a's call: arg is  *)
(* the targetChannel it passed, ret the chat id validateChat gave.         *)
(***************************************************************************)
\* me.username of bot.telegram.getMe().
BotUsername == <<"B", "o", "t">>

\* chat.id.toString() of bot.telegram.getChat().
ChatId == <<"-", "7">>

\* /^-?\d+$/.test(targetChannel) (botHandler.js:47).
IsNumericId(text) ==
    LET digits == IF text # << >> /\ text[1] = "-" THEN Tail(text) ELSE text
    IN digits # << >> /\ \A k \in 1..Len(digits) : IsDigit(digits[k])

\* targetChannel.replace('@', '') (botHandler.js:53): the first '@' of the
\* text is removed, wherever it is.
RemoveAt(text) ==
    LET ats == {k \in 1..Len(text) : text[k] = "@"}
    IN IF ats = {} THEN text
       ELSE LET k == CHOOSE k \in ats : \A j \in ats : k <= j
            IN SubSeq(text, 1, k - 1) \o SubSeq(text, k + 1, Len(text))

\* The targets the callers pass: a chat id, the bot's own username in
\* another case, a channel's username, a text with an '@' inside, and a
\* text that only starts like a chat id.
Targets ==
    { <<"-", "1", "2">>,
      <<"@", "b", "o", "t">>,
      <<"@", "d", "e", "v">>,
      <<"d", "@", "e", "v">>,
      <<"1", "a">> }

\* A call has thrown to its caller.
Throw(r) == [r EXCEPT !.pc = "forwarder", !.outcome = "threw", !.ret = << >>]

\* validateChat has its chat id (botHandler.js:49, 71, 75): it returns it
\* to the caller, or to forwardMessage, which sends (botHandler.js:94-105).
ValidateReturn(r, chatId) ==
    IF r.kind = "validateChat"
    THEN [r EXCEPT !.pc = "forwarder", !.outcome = "returned", !.ret = chatId]
    ELSE [r EXCEPT !.pc = "f_send", !.ret = chatId]

\* validateChat up to its first await (botHandler.js:44-56).
validateChat(r) ==
    IF IsNumericId(r.arg) THEN ValidateReturn(r, r.arg)
    ELSE [r EXCEPT !.pc = "v_getMe"]

\* validateChat after getMe() has returned me (botHandler.js:56-69).
GetMeDone(r, me) ==
    IF toLowerCase(RemoveAt(r.arg)) = toLowerCase(me) THEN Throw(r)
    ELSE [r EXCEPT !.pc = "v_getChat"]

\* validateChat after getChat() has resolved or rejected
\* (botHandler.js:68-76).
GetChatDone(r, ok) ==
    ValidateReturn(r, IF ok THEN ChatId ELSE <<"@">> \o RemoveAt(r.arg))

ForwarderUnchanged ==
    UNCHANGED <<isRunning, pollInterval, reconnectAttempts, processedIds, file, disk,
                isConnected, lastMessageId, exitCode, chanMax, deliveredRun,
                filteredOut, evicted, consecFails, unsaved, restarts>>

\* The caller of a call that has not started.
Caller(kind) == [Idle EXCEPT !.pc = "forwarder", !.kind = kind]

\* new BotHandler(token) (botHandler.js:13-17).
ForwarderNew ==
    /\ actor[1].pc = "start"
    /\ botHandler' = TRUE
    /\ isReady' = FALSE
    /\ actor' = [a \in Actors |-> IF a \in Slots THEN Caller("none") ELSE Idle]
    /\ UNCHANGED <<delivered, faults>>
    /\ ForwarderUnchanged

\* A caller calls initialize() (botHandler.js:22-29).
ForwarderInitialize(a) ==
    /\ actor[a].pc = "forwarder"
    /\ actor' = [actor EXCEPT ![a] = [Caller("initialize") EXCEPT !.pc = "b_getMe"]]
    /\ UNCHANGED <<botHandler, isReady, delivered, faults>>
    /\ ForwarderUnchanged

\* initialize's getMe() resolves or rejects (botHandler.js:29-38).
ForwarderInitResolve(a) ==
    /\ actor[a].pc = "b_getMe"
    /\ \E ok \in BOOLEAN :
        /\ Answer(ok)
        /\ isReady' = ok
        /\ actor' = [actor EXCEPT ![a] =
                        IF ok THEN [@ EXCEPT !.pc = "forwarder", !.outcome = "returned"]
                        ELSE Throw(@)]
    /\ UNCHANGED <<botHandler, delivered>>
    /\ ForwarderUnchanged

\* A caller calls validateChat(target).
ForwarderValidate(a) ==
    /\ actor[a].pc = "forwarder"
    /\ \E target \in Targets :
        actor' = [actor EXCEPT ![a] =
                    validateChat([Caller("validateChat") EXCEPT !.arg = target])]
    /\ UNCHANGED <<botHandler, isReady, delivered, faults>>
    /\ ForwarderUnchanged

\* A caller calls forwardMessage(message, target) (botHandler.js:87-94)
\* for the message 1.
ForwarderForward(a) ==
    /\ actor[a].pc = "forwarder"
    /\ \E target \in Targets :
        LET r == [Caller("forwardMessage") EXCEPT !.arg = target,
                                                  !.batch = <<1>>, !.idx = 1]
        IN actor' = [actor EXCEPT ![a] =
                        IF ForwardEntry(St) THEN validateChat(r) ELSE Throw(r)]
    /\ UNCHANGED <<botHandler, isReady, delivered, faults>>
    /\ ForwarderUnchanged

\* validateChat's getMe() resolves or rejects (botHandler.js:56, 77-80).
GetMeResolve(a) ==
    /\ actor[a].pc = "v_getMe"
    /\ \E ok \in BOOLEAN :
        /\ Answer(ok)
        /\ actor' = [actor EXCEPT ![a] =
                        IF ok THEN GetMeDone(@, BotUsername) ELSE Throw(@)]
    /\ UNCHANGED <<botHandler, isReady, delivered>>
    /\ ForwarderUnchanged

\* validateChat's getChat() resolves or rejects (botHandler.js:68-76).
GetChatResolve(a) ==
    /\ actor[a].pc = "v_getChat"
    /\ \E ok \in BOOLEAN :
        /\ Answer(ok)
        /\ actor' = [actor EXCEPT ![a] = GetChatDone(@, ok)]
    /\ UNCHANGED <<botHandler, isReady, delivered>>
    /\ ForwarderUnchanged

\* forwardMessage's sendMessage() resolves or rejects
\* (botHandler.js:105-141).
ForwarderSendResolve(a) ==
    /\ actor[a].pc = "f_send"
    /\ \E ok \in BOOLEAN :
        /\ Answer(ok)
        /\ delivered' = IF ok THEN [delivered EXCEPT ![actor[a].batch[1]] = Inc(@)]
                         ELSE delivered
        /\ actor' = [actor EXCEPT ![a] =
                        IF ok THEN [@ EXCEPT !.pc = "forwarder", !.outcome = "returned"]
                        ELSE Throw(@)]
    /\ UNCHANGED <<botHandler, isReady>>
    /\ ForwarderUnchanged

\* A caller calls stop() (botHandler.js:219-243).
ForwarderStop(a) ==
    /\ actor[a].pc = "forwarder"
    /\ isReady' = BotStop(St).isReady
    /\ actor' = [actor EXCEPT ![a] = [Caller("stop") EXCEPT !.outcome = "returned"]]
    /\ UNCHANGED <<botHandler, delivered, faults>>
    /\ ForwarderUnchanged

NextForwarder ==
    \/ ForwarderNew
    \/ \E a \in Slots : ForwarderInitialize(a)
    \/ \E a \in Slots : ForwarderInitResolve(a)
    \/ \E a \in Slots : ForwarderValidate(a)
    \/ \E a \in Slots : ForwarderForward(a)
    \/ \E a \in Slots : GetMeResolve(a)
    \/ \E a \in Slots : GetChatResolve(a)
    \/ \E a \in Slots : ForwarderSendResolve(a)
    \/ \E a \in Slots : ForwarderStop(a)
InitForwarder == InitWith(FewFaults)
SpecForwarder == InitForwarder /\ [][NextForwarder]_vars

(***************************************************************************)
(* Properties.                                                             *)
(***************************************************************************)
\* The ids in the in-memory ledger.
Ledger == {processedIds[k] : k \in 1..Len(processedIds)}

\* The message an activation is handling.
Current(r) == r.batch[r.idx]

\* The activation is inside the per-message loop of a pass.
InLoop(r) == r.pc \in {"validate", "send", "delay"}

\* The activation runs a poll pass (pollForMessages); a pipeline pass is a
\* poll pass or the backfill.
InPoll(r) == r.kind \in {"first", "tick"}
InPass(r) == r.kind \in {"backfill", "first", "tick"}

\* This step has taken a message into processMessage for activation a.
Entered(a) ==
    /\ InLoop(actor'[a])
    /\ \/ ~InLoop(actor[a])
       \/ actor'[a].idx # actor[a].idx

\* This step has returned from processMessage for activation a.
Returned(a) ==
    /\ actor'[a].pc = "delay"
    /\ \/ actor[a].pc # "delay"
       \/ actor'[a].idx # actor[a].idx

\* C1: within one process run, no message id is delivered more than once.
C1_AtMostOncePerRun == \A id \in MsgIds : deliveredRun[id] <= 1

\* C2: no two poll passes are in progress at the same time.
C2_NoOverlappingPasses ==
    Cardinality({a \in Slots : InPoll(actor[a])}) <= 1

\* C3: when processMessage(m) returns and the forwarding of m has not
\* failed, m.id is in the ledger, whether the filter accepted m or not.
C3_ProcessedOnReturn ==
    [][\A a \in Slots :
         (Returned(a) /\ actor'[a].outcome # "failed")
            => Current(actor'[a]) \in Ledger']_vars

\* C3's case: a pass has returned from processMessage for a forwarded
\* message after the filter has rejected another one.
C3_Witness ==
    \E a \in Slots :
        /\ actor[a].pc = "delay"
        /\ actor[a].outcome = "forwarded"
        /\ Current(actor[a]) \in Ledger
        /\ filteredOut # {}
        /\ filteredOut \subseteq Ledger

\* C4: running the pipeline on a message whose id is in the ledger is a
\* no-op: nothing is forwarded or delivered and the ledger, in memory and
\* on disk, is unchanged, whatever the filter says of the message.
C4_SkipIsNoOp ==
    [][\A a \in Slots :
         (Entered(a) /\ Current(actor'[a]) \in Ledger)
            => /\ actor'[a].pc = "delay"
               /\ processedIds' = processedIds
               /\ file' = file
               /\ delivered' = delivered]_vars

\* C4's case: an id delivered by an earlier pass has come back (the
\* backlog is scanned again after a restart), was skipped, and has been
\* delivered exactly once.
C4_Witness ==
    \E a \in Slots :
        /\ restarts = 1
        /\ actor[a].pc = "delay"
        /\ actor[a].outcome = "skipped"
        /\ Current(actor[a]) \in Matching
        /\ delivered[Current(actor[a])] = 1
        /\ deliveredRun[Current(actor[a])] = 0

\* This step has caught a forwarding failure for activation a.
FailedNow(a) == Returned(a) /\ actor'[a].outcome = "failed"

\* C5: a forwarding failure returns from processMessage without adding
\* the id to the ledger, and the ledger holds the id of a matching message
\* only once that message has been delivered.
C5_FailureNotRecorded ==
    [][/\ \A a \in Slots :
            FailedNow(a) => /\ processedIds' = processedIds
                            /\ file' = file
       /\ \A id \in Ledger' :
            id \in Matching => delivered'[id] >= 1]_vars

\* C5's case: a forward has failed, and the message is not in the ledger.
C5_Witness ==
    \E a \in Slots :
        /\ actor[a].pc = "delay"
        /\ actor[a].outcome = "failed"
        /\ Current(actor[a]) \notin Ledger
        /\ delivered[Current(actor[a])] = 0

\* C6: a pass hands every message of its batch to processMessage, one
\* after the other, and processMessage always returns to the loop: the
\* loop is left only after the delay that follows the last message.
C6_PassNeverAborted ==
    [][\A a \in Slots :
         /\ (InLoop(actor[a]) /\ InLoop(actor'[a]))
               => /\ actor'[a].batch = actor[a].batch
                  /\ \/ actor'[a].idx = actor[a].idx
                     \/ actor[a].pc = "delay" /\ actor'[a].idx = actor[a].idx + 1
         /\ (InLoop(actor[a]) /\ ~InLoop(actor'[a]))
               => /\ actor[a].pc = "delay"
                  /\ actor[a].idx = Len(actor[a].batch)
         /\ (~InLoop(actor[a]) /\ InLoop(actor'[a]))
               => actor'[a].idx = 1
         /\ (actor[a].pc \in {"validate", "send"})
               => actor'[a].pc \in {"validate", "send", "delay"}]_vars

\* C6's case: a message of the batch is being processed after an earlier
\* message of the same batch has failed.
C6_Witness ==
    \E a \in Slots :
        /\ InLoop(actor[a])
        /\ actor[a].errAt >= 1
        /\ actor[a].idx > actor[a].errAt

\* C7: a forward is begun only for a message that was not in the ledger
\* and that the filter accepts; only such a forward delivers; a message
\* the filter rejects is marked processed and is never delivered.
C7_DeliveredOnlyIfAccepted ==
    [][/\ \A a \in Slots :
            /\ (Entered(a) /\ actor'[a].pc = "validate")
                  => /\ Current(actor'[a]) \notin Ledger
                     /\ Current(actor'[a]) \in Matching
            /\ (Entered(a) /\ Current(actor'[a]) \notin Ledger
                           /\ Current(actor'[a]) \notin Matching)
                  => /\ actor'[a].pc = "delay"
                     /\ Current(actor'[a]) \in Ledger'
       /\ \A id \in MsgIds :
            /\ delivered'[id] # delivered[id]
                  => \E a \in Slots : /\ actor[a].pc = "send"
                                      /\ Current(actor[a]) = id
            /\ id \notin Matching => delivered'[id] = 0]_vars

\* C7's case: one message has been delivered, another has been rejected
\* and marked, and the rejected one has not been delivered.
C7_Witness ==
    /\ \E id \in MsgIds : delivered[id] >= 1 /\ id \in Matching
    /\ \E id \in filteredOut : id \in Ledger /\ delivered[id] = 0

\* The ids forwarded in this run.
Forwarded == {id \in MsgIds : deliveredRun[id] >= 1}
NoPassInProgress == \A a \in Slots : ~InPass(actor[a])

\* C8: whenever no pass is in progress, every id ever forwarded and every
\* id ever filtered out is in the ledger.
C8_LedgerHoldsAllHandled ==
    NoPassInProgress => (Forwarded \cup filteredOut) \subseteq Ledger

\* C8 as amended: whenever no pass is in progress, every id forwarded or
\* filtered out in this run is in the ledger unless cleanup has evicted it.
C8_LedgerHoldsAllButEvicted ==
    NoPassInProgress => (Forwarded \cup filteredOut) \subseteq (Ledger \cup evicted)

\* C8's case: no pass is in progress, a forwarded id and a rejected id are
\* in the ledger, and cleanup has evicted an id that was handled.
C8_Witness ==
    /\ NoPassInProgress
    /\ Forwarded \cap Ledger # {}
    /\ filteredOut \cap Ledger # {}
    /\ (Forwarded \cup filteredOut) \cap (evicted \ Ledger) # {}

\* C9: over process runs, kills and restarts, no id is delivered more than
\* once unless cleanup has evicted it.
C9_AtMostOnceAcrossRestarts ==
    \A id \in MsgIds : delivered[id] <= 1 \/ id \in evicted

\* C10: after maxReconnectAttempts consecutive failed reconnections the
\* orchestrator is stopped (isRunning false, the timer cancelled), so that
\* no further poll is issued.
C10_StoppedAfterFiveFailures ==
    consecFails >= maxReconnectAttempts => (~isRunning /\ ~pollInterval)

\* This step is handleReconnection's reconnect() returning for activation a
\* (index.js:165-167): the sign-in of a reconnection has resolved and the
\* activation has returned.
ReconnectSucceeded(a) ==
    /\ actor[a].pc = "signin"
    /\ actor[a].kind \in {"first", "tick"}
    /\ actor'[a].pc = "idle"
    /\ exitCode' = -1

\* C11: when a reconnection succeeds the retry counter is 0 and the
\* orchestrator is polling again: isRunning is true, the timer is installed,
\* the source reader is connected and the cursor is where it was, so that
\* the next tick performs a normal fetch.
C11_ReconnectedIsPolling ==
    [][\A a \in Slots : ReconnectSucceeded(a) =>
            /\ reconnectAttempts' = 0
            /\ isRunning' /\ pollInterval'
            /\ isConnected'
            /\ lastMessageId' = lastMessageId]_vars

\* This step is a transport call of activation a's poll fetch rejecting:
\* getNewMessages throws the transport's error to pollForMessages.
PollFailed(a) ==
    /\ InPoll(actor[a])
    /\ actor[a].pc \in {"getEntity", "getMessages"}
    /\ actor'[a] # actor[a]
    /\ faults' = faults - 1

\* This step has run handleReconnection for activation a up to its first
\* await: either stop() (index.js:155-158) or the counter's increment and
\* reconnect() (index.js:161-165).
ReconnectionEntered(a) ==
    IF reconnectAttempts >= maxReconnectAttempts
    THEN ~isRunning' /\ ~pollInterval'
    ELSE /\ reconnectAttempts' = reconnectAttempts + 1
         /\ actor'[a].pc \in {"rc_disc", "rc_delay"}

\* C12: every poll that fails because the source transport raised an error
\* invokes handleReconnection.
C12_TransportErrorReconnects ==
    [][\A a \in Slots : PollFailed(a) => ReconnectionEntered(a)]_vars

\* The file holds the text save() writes for the ledger ids.
Holds(f, ids) == f.exists /\ f.text = stringify(ids)

\* This step is the call cleanup(c) of the ledger's caller.
CleanupCalled(c) ==
    /\ actor[1].pc = "storage"
    /\ actor'[1].pc = "storage"
    /\ actor'[1].kind = "cleanup"
    /\ actor'[1].i = c
    /\ disk' = disk

\* C13: cleanup(c), for every ledger and every ceiling c >= 0: a ledger of
\* more than c ids is cut to its c most recently inserted ids, in their
\* order, and written to the file (when the disk takes the write); a
\* ledger of at most c ids and its file are left as they are.
C13_CleanupKeepsNewest ==
    [][\A c \in Ceilings : CleanupCalled(c) =>
          IF Len(processedIds) > c
          THEN /\ Len(processedIds') = c
               /\ processedIds' = [k \in 1..c |-> processedIds[Len(processedIds) - c + k]]
               /\ disk = "ok" => Holds(file', processedIds')
          ELSE processedIds' = processedIds /\ file' = file]_vars

\* This step is the call markProcessed(id) of the ledger's caller.
MarkCalled(id) ==
    /\ actor[1].pc = "storage"
    /\ actor'[1].pc = "storage"
    /\ actor'[1].kind = "markProcessed"
    /\ Current(actor'[1]) = id
    /\ disk' = disk

\* C14: the ledger's round trip.  After markProcessed has written the
\* file, a ledger constructed from that file holds exactly the ids of the
\* ledger in memory, the marked id among them: isProcessed agrees on every
\* id and getCount is the same.
C14_LedgerRoundTrip ==
    [][\A id \in LedgerIds : (MarkCalled(id) /\ disk = "ok") =>
          /\ ~load(file', disk).threw
          /\ load(file', disk).processedIds = processedIds'
          /\ isProcessed(load(file', disk).processedIds, id)]_vars

\* C14's case: a ledger constructed from the file that the marks of all
\* the ids have written holds all of them.
C14_Witness ==
    /\ actor[1].pc = "storage"
    /\ actor[1].kind = "new"
    /\ Len(processedIds) = Cardinality(LedgerIds)
    /\ \A id \in LedgerIds : isProcessed(processedIds, id)

\* The file's text parses as JSON.
Parsable(f) == parse(f.text).ok

\* This step is the construction of the ledger by its caller.
Constructed ==
    /\ actor[1].pc = "start"
    /\ actor'[1].pc # "start"
    /\ actor'[1].kind = "new"

\* C15: constructing the ledger never fails.  Without a file, and with a
\* file that cannot be read or does not parse (a torn one included), the
\* constructor returns normally with an empty ledger.
C15_ConstructionNeverFails ==
    [][Constructed =>
          /\ actor'[1].pc = "storage"
          /\ (~file.exists \/ disk = "unreadable" \/ ~Parsable(file))
                => processedIds' = << >>]_vars

\* C15's case: the ledger has been constructed from a file that a kill in
\* the middle of a write has torn after its first id.
C15_Witness ==
    /\ actor[1].pc = "storage"
    /\ actor[1].kind = "new"
    /\ file.exists
    /\ Len(file.text) > 4
    /\ ~Parsable(file)
    /\ processedIds = << >>

\* This step has returned from processMessage for activation a after a
\* call of markProcessed whose write the file system refused.
MarkedUnsaved(a) ==
    /\ Returned(a)
    /\ actor'[a].outcome \in {"rejected", "forwarded"}
    /\ disk # "ok"

\* C16: a failed ledger write is never fatal and never loses in-memory
\* state.  processMessage returns normally to its loop with the id in the
\* in-memory ledger, the process goes on, and the id stays in the ledger
\* for the rest of the run.
C16_FailedWriteKeepsId ==
    /\ [](unsaved \subseteq Ledger)
    /\ [][\A a \in Slots : MarkedUnsaved(a) =>
            /\ Current(actor'[a]) \in Ledger'
            /\ actor'[a].pc = "delay"
            /\ exitCode' = -1]_vars

\* C16 as amended: the id stays in the in-memory ledger until cleanup
\* evicts it.
C16_FailedWriteKeepsIdUntilEvicted ==
    /\ [](unsaved \subseteq (Ledger \cup evicted))
    /\ [](unsaved # {} => exitCode = -1)
    /\ [][\A a \in Slots : MarkedUnsaved(a) =>
            /\ Current(actor'[a]) \in Ledger'
            /\ actor'[a].pc = "delay"
            /\ exitCode' = -1]_vars

\* C16's case: a write has failed, its id is in the in-memory ledger and
\* not in the file, and the pass has gone on to forward a later message.
C16_Witness ==
    \E id \in unsaved :
        /\ id \in Ledger
        /\ ~isProcessed(load(file, "ok").processedIds, id)
        /\ \E a \in Slots : /\ actor[a].pc = "delay"
                            /\ actor[a].outcome = "forwarded"
                            /\ Current(actor[a]) > id

\* This step is caller a's call of forwardMessage.
ForwardCalled(a) ==
    /\ actor[a].pc = "forwarder"
    /\ actor'[a] # actor[a]
    /\ actor'[a].kind = "forwardMessage"

\* This step is a successful return of initialize().
InitializeSucceeded ==
    \E a \in Slots : /\ actor[a].pc = "b_getMe"
                     /\ actor'[a].pc = "forwarder"
                     /\ actor'[a].outcome = "returned"

\* C17: forwardMessage called while the forwarder is not ready (initialize
\* never called, failed, or stop() run since) raises at once and sends
\* nothing; isReady becomes true only by a successful initialize().
C17_ForwardOnlyWhenReady ==
    [][/\ \A a \in Slots : (ForwardCalled(a) /\ ~isReady) =>
              /\ actor'[a].pc = "forwarder"
              /\ actor'[a].outcome = "threw"
              /\ delivered' = delivered
       /\ (isReady' /\ ~isReady) => InitializeSucceeded]_vars

\* C17's case: after a delivery, stop() has run and a forwardMessage to a
\* chat id has raised although the transport has rejected nothing.
C17_Witness ==
    /\ ~isReady
    /\ faults = FewFaults
    /\ \E id \in MsgIds : delivered[id] >= 1
    /\ \E a, b \in Slots :
        /\ actor[a].pc = "forwarder"
        /\ actor[a].kind = "forwardMessage"
        /\ actor[a].outcome = "threw"
        /\ IsNumericId(actor[a].arg)
        /\ actor[b].kind = "stop"

\* The username of a target: the target without its leading '@'.
UsernameOf(target) ==
    IF target # << >> /\ target[1] = "@" THEN Tail(target) ELSE target

\* The target is the bot's own username, in any case.
IsOwnUsername(target) == toLowerCase(UsernameOf(target)) = toLowerCase(BotUsername)

\* The activation is a call of validateChat by a caller, not the one
\* inside forwardMessage.
Validating(r) == r.kind = "validateChat"

\* The activation has returned value to its caller.
HasReturned(r, value) ==
    r.pc = "forwarder" /\ r.outcome = "returned" /\ r.ret = value

\* C18: validateChat(id) returns the id unchanged, without any lookup, when
\* the id is numeric-looking; raises, without a lookup, when the username
\* is the bot's own; returns the looked-up chat id when the lookup
\* succeeds, and '@' + username when the lookup fails.
C18_ValidateChatOutcomes ==
    [][\A a \in Slots : (Validating(actor'[a]) /\ actor'[a] # actor[a]) =>
          /\ (actor[a].pc = "forwarder" /\ IsNumericId(actor'[a].arg))
                => (HasReturned(actor'[a], actor'[a].arg) /\ faults' = faults)
          /\ (actor[a].pc = "v_getMe" /\ faults' = faults /\ IsOwnUsername(actor[a].arg))
                => (actor'[a].pc = "forwarder" /\ actor'[a].outcome = "threw")
          /\ actor'[a].pc = "v_getChat" => ~IsOwnUsername(actor'[a].arg)
          /\ (actor[a].pc = "v_getChat" /\ faults' = faults)
                => HasReturned(actor'[a], ChatId)
          /\ (actor[a].pc = "v_getChat" /\ faults' # faults)
                => HasReturned(actor'[a], <<"@">> \o UsernameOf(actor[a].arg))]_vars

\* This step is the return of a call of stop(): of the one a signal
\* handler or start()'s catch made, which exits next, or of the one
\* handleReconnection made after stop()'s disconnect.
StopReturned ==
    \/ exitCode = -1 /\ exitCode' # -1
    \/ \E a \in Actors : actor[a].pc = "stop_disc" /\ actor'[a].pc = "idle"

\* C19: when stop() returns the timer is cancelled, isRunning is false, the
\* source reader is disconnected and the forwarder is not ready.
C19_StopIsComplete ==
    [][StopReturned =>
          (~isRunning' /\ ~pollInterval' /\ ~isConnected' /\ ~isReady')]_vars

\* start() is inside initialize(), or in the stop() that follows its
\* failure.
Initializing == actor[1].kind = "init"

\* Nothing has been fetched or forwarded in this run and polling has not
\* started.
NothingStarted ==
    /\ lastMessageId = 0
    /\ \A id \in MsgIds : deliveredRun[id] = 0
    /\ filteredOut = {}
    /\ ~isRunning /\ ~pollInterval
    /\ \A a \in Slots : a # 1 => actor[a].pc = "idle"

\* The components that are up at each step of initialize(): the ledger is
\* read before the connect, the forwarder is constructed only after it.
BroughtUpInOrder ==
    /\ actor[1].pc \in {"connect", "signin", "botinit"}
          => processedIds = load(file, disk).processedIds
    /\ actor[1].pc \in {"connect", "signin"} => (~botHandler /\ ~isReady)
    /\ actor[1].pc = "botinit" => (isConnected /\ botHandler /\ ~isReady)

\* This step is the failure of a step of initialize().
InitStepFailed ==
    /\ Initializing
    /\ actor[1].pc \in {"connect", "signin", "botinit"}
    /\ actor'[1] # actor[1]
    /\ faults' = faults - 1

\* C20: the components are brought up in the order ledger, filter, source
\* reader, forwarder; when a step fails the later ones are not performed,
\* nothing is fetched or forwarded, polling does not start, stop() runs
\* and the process exits with code 1.
C20_BringUpFailsToExit1 ==
    /\ [](Initializing => (NothingStarted /\ BroughtUpInOrder))
    /\ [][InitStepFailed =>
            /\ botHandler' = botHandler
            /\ ~isReady'
            /\ \/ actor'[1].pc = "stop_disc" /\ actor'[1].then = "exit1"
               \/ exitCode' = 1]_vars
    /\ [][(Initializing /\ actor[1].pc = "stop_disc" /\ actor'[1] # actor[1]
            /\ restarts' = restarts) =>
            (exitCode' = 1 /\ ~isReady' /\ NothingStarted')]_vars

\* C20's case: with messages in the channel, the connect has failed and
\* the process has exited with code 1 without constructing the forwarder.
C20_Witness ==
    /\ exitCode = 1
    /\ faults < MaxFaults
    /\ chanMax >= 1
    /\ ~botHandler
    /\ NothingStarted

(***************************************************************************)
(* C21: a termination signal ends the run with exit code 0 after stop()    *)
(* has returned; exit code 1 comes only from a failure of start().         *)
(***************************************************************************)
\* The process exits with `code` in this step.
Exits(code) == exitCode = -1 /\ exitCode' = code

\* The signal handler has been called and has not yet exited the process.
SignalPending == actor[0].kind = "signal"

\* C21: exit code 0 is produced by the signal handler (no other handler
\* moves in that step) once its stop() has returned; exit
\* code 1 is produced by start()'s catch, and never once a termination
\* signal has been received.
C21_SignalExitsZero ==
    [][ /\ Exits(0) => /\ \A a \in Slots : actor'[a] = actor[a]
                       /\ actor'[0] = Idle
        /\ Exits(1) => /\ actor[1].kind \in {"init", "backfill"}
                       /\ ~SignalPending ]_vars

(***************************************************************************)
(* C22: exhausted reconnection attempts end the process.                   *)
(***************************************************************************)
\* This step returns from the stop() that handleReconnection calls when it
\* finds the attempts exhausted (index.js:155-158), for activation a:
\* either its pending disconnect has been answered, or the whole of stop()
\* ran in the step that found the attempts exhausted.
ExhaustedStopReturned(a) ==
    \/ /\ actor[a].pc = "stop_disc"
       /\ actor[a].then = "ret"
       /\ actor'[a].pc = "idle"
    \/ /\ reconnectAttempts >= maxReconnectAttempts
       /\ actor'[a] # actor[a]
       /\ actor'[a].pc = "idle"
       /\ isRunning /\ ~isRunning'

\* C22: when handleReconnection has found the attempts exhausted and its
\* stop() has returned, the process exits.
C22_ExhaustionExits ==
    [][\A a \in Slots : ExhaustedStopReturned(a) => exitCode' # -1]_vars

(***************************************************************************)
(* C23: the ledger is brought back to the ceiling.                         *)
(***************************************************************************)
\* C23: whenever the ledger holds more ids than the ceiling, the automatic
\* cleanup eventually brings it back to at most the ceiling, while the
\* timer keeps firing and the cleanup branch is chosen fairly.
C23_LedgerEventuallyBounded ==
    (Len(processedIds) > CleanupCeiling) ~> (Len(processedIds) <= CleanupCeiling)

(***************************************************************************)
(* C24: isJobPost is the case-insensitive whole-word match.                *)
(***************************************************************************)
\* The last call of isJobPost: its keyword list and its message.
FilterKeywords == actor[1].arg[1]
FilterMessage == actor[1].arg[2]
FilterCalled == actor[1].kind = "isJobPost"

\* The message has the shape extractText expects.
WellFormed(m) ==
    /\ m.entities.kind # "other"
    /\ \A k \in 1..Len(m.entities.items) : m.entities.items[k].kind = "object"

\* The texts joined by single blanks.
RECURSIVE JoinTexts(_)
JoinTexts(texts) ==
    IF texts = << >> THEN << >>
    ELSE IF Len(texts) = 1 THEN texts[1]
    ELSE texts[1] \o <<" ">> \o JoinTexts(Tail(texts))

\* The extracted text: the body, the caption, the entity texts and the
\* replied-to text that are present, lowercased.
ExtractedText(m) ==
    LET parts == <<m.message, m.caption>>
                 \o [k \in 1..Len(m.entities.items) |-> m.entities.items[k].text]
                 \o <<m.replyTo.message>>
    IN toLowerCase(JoinTexts(SelectSeq(parts, LAMBDA t : t # << >>)))

\* The keyword occurs in the text as a whole word, case-insensitively: an
\* occurrence with no word character next to it.
OccursAsWholeWord(keyword, text) ==
    \E p \in 0..(Len(text) - Len(keyword)) :
        /\ toLowerCase(SubSeq(text, p + 1, p + Len(keyword))) = toLowerCase(keyword)
        /\ p = 0 \/ ~IsWordChar(text[p])
        /\ p + Len(keyword) = Len(text) \/ ~IsWordChar(text[p + Len(keyword) + 1])

\* C24: isJobPost(message) is true exactly when the extracted text is not
\* empty and some keyword occurs in it as a whole word, case-insensitively.
C24_IsJobPostIsWholeWordMatch ==
    (FilterCalled /\ WellFormed(FilterMessage)) =>
        actor[1].ret =
            Return(/\ ExtractedText(FilterMessage) # << >>
                   /\ \E k \in 1..Len(FilterKeywords) :
                        OccursAsWholeWord(FilterKeywords[k],
                                          ExtractedText(FilterMessage)))

(***************************************************************************)
(* C25: isJobPost never raises.                                            *)
(***************************************************************************)
\* C25: for every message and every keyword list isJobPost returns a
\* boolean and never raises; it returns false when the extracted text is
\* empty, and false when a step inside it fails: the message is malformed
\* or the first keyword is not a valid regular expression.
C25_IsJobPostNeverRaises ==
    FilterCalled =>
        /\ ~actor[1].ret.threw
        /\ actor[1].ret.value \in BOOLEAN
        /\ ~WellFormed(FilterMessage) => ~actor[1].ret.value
        /\ (WellFormed(FilterMessage) /\ ExtractedText(FilterMessage) = << >>)
              => ~actor[1].ret.value
        /\ RegExpThrows(FilterKeywords[1]) => ~actor[1].ret.value

\* isJobPost has returned for a malformed message that has a body a
\* keyword occurs in.
C25_Witness ==
    /\ FilterCalled
    /\ ~WellFormed(FilterMessage)
    /\ OccursAsWholeWord(FilterKeywords[1], toLowerCase(FilterMessage.message))
    /\ actor[1].ret = Return(FALSE)

(***************************************************************************)
(* C26: getNewMessages and the cursor.                                     *)
(***************************************************************************)
\* This step issues the fetch of getNewMessages for activation a
\* (part_000:233-236).
NewFetchIssued(a) ==
    /\ InPoll(actor[a])
    /\ actor[a].pc = "getEntity"
    /\ actor'[a].pc = "getMessages"

\* This step returns from the fetch of getNewMessages for activation a.
NewFetchReturned(a) ==
    /\ InPoll(actor[a])
    /\ actor[a].pc = "getMessages"
    /\ actor'[a] # actor[a]
    /\ faults' = faults

\* The messages that fetch returned: the batch the pass goes on with, or
\* nothing when the pass has ended.
NewFetched(a) == IF actor'[a].pc = "idle" THEN << >> ELSE actor'[a].batch

\* C26: getNewMessages requests the messages above the cursor, at most
\* `limit` of them; when it returns, the cursor is the maximum of its old
\* value and the largest id returned; the cursor is unchanged when nothing
\* is returned and when the fetch raises.
C26_NewMessagesAdvanceCursor ==
    [][\A a \in Slots :
        /\ NewFetchIssued(a) => actor'[a].minId = lastMessageId
        /\ NewFetchReturned(a) =>
            /\ Len(NewFetched(a)) <= PollLimit
            /\ \A k \in 1..Len(NewFetched(a)) : NewFetched(a)[k] > actor[a].minId
            /\ lastMessageId' = IF NewFetched(a) = << >> THEN lastMessageId
                                ELSE Max(lastMessageId, MaxId(NewFetched(a)))
        /\ PollFailed(a) => lastMessageId' = lastMessageId]_vars

\* A poll's fetch, issued with a cursor above 0, has returned messages and
\* the cursor has advanced to the largest of them.
C26_Witness ==
    \E a \in Slots :
        /\ InPoll(actor[a])
        /\ actor[a].pc \in {"validate", "delay"}
        /\ actor[a].idx = 1
        /\ actor[a].minId > 0
        /\ lastMessageId = MaxId(actor[a].batch)
        /\ lastMessageId > actor[a].minId

(***************************************************************************)
(* C27: getRecentMessages and the cursor.                                  *)
(***************************************************************************)
\* This step returns from the fetch of getRecentMessages.
RecentFetchReturned(a) ==
    /\ actor[a].kind = "backfill"
    /\ actor[a].pc = "getMessages"
    /\ actor'[a] # actor[a]
    /\ faults' = faults

\* The messages that fetch returned: the batch of the backfill, or nothing
\* when start() has gone on to the first poll.
RecentFetched(a) == IF actor'[a].kind = "backfill" THEN actor'[a].batch ELSE << >>

\* This step is a transport call of getRecentMessages rejecting.
RecentFailed(a) ==
    /\ actor[a].kind = "backfill"
    /\ actor[a].pc \in {"getEntity", "getMessages"}
    /\ actor'[a] # actor[a]
    /\ faults' = faults - 1

\* This step ends the backfill's loop: start() calls the first poll.
BackfillEnded(a) ==
    /\ actor[a].kind = "backfill"
    /\ actor[a].pc = "delay"
    /\ actor'[a].kind # "backfill"

\* C27: getRecentMessages sets the cursor to the largest id returned and
\* leaves it unchanged when nothing is returned or the fetch raises; when
\* the backfill ends the cursor is at or above every backfilled id, it
\* never goes down, and the first poll requests the ids above it.
C27_RecentMessagesSetCursor ==
    [][/\ lastMessageId' >= lastMessageId
       /\ \A a \in Slots :
            /\ RecentFetchReturned(a) =>
                lastMessageId' = IF RecentFetched(a) = << >> THEN lastMessageId
                                 ELSE MaxId(RecentFetched(a))
            /\ RecentFailed(a) => lastMessageId' = lastMessageId
            /\ BackfillEnded(a) =>
                \A k \in 1..Len(actor[a].batch) : actor[a].batch[k] <= lastMessageId'
            /\ (NewFetchIssued(a) /\ actor[a].kind = "first") =>
                actor'[a].minId >= lastMessageId]_vars

\* The first poll's fetch is in flight after a backfill that returned
\* messages: it asks for the ids above the largest backfilled id.
C27_Witness ==
    /\ actor[1].kind = "first"
    /\ actor[1].pc = "getMessages"
    /\ actor[1].minId = RecentLimit
    /\ lastMessageId = RecentLimit
    /\ chanMax > RecentLimit

(***************************************************************************)
(* C28: reader.reconnect(maxRetries, delayMs).                             *)
(***************************************************************************)
\* A call of reconnect is in progress, or has ended.
Reconnecting == actor[1].kind = "reconnect" /\ actor[1].pc # "reader"
ReconnectEnded == actor[1].kind = "reconnect" /\ actor[1].pc = "reader"

\* C28: reconnect(maxRetries) makes at most maxRetries attempts; it ends
\* by returning with the reader connected, or by raising after maxRetries
\* failed attempts.
C28_ReconnectEndsConnectedOrRaises ==
    /\ Reconnecting => actor[1].i < actor[1].arg[1]
    /\ ReconnectEnded =>
        \/ actor[1].outcome = "returned" /\ isConnected
        \/ /\ actor[1].outcome = "threw"
           /\ actor[1].i = actor[1].arg[1] - 1

(***************************************************************************)
(* C29: the backoff after a failed reconnection.                           *)
(***************************************************************************)
\* The wait the claim gives for the failed attempt number n.
BackoffOf(n) == Min(5000 * Pow2(n - 1), 60000)

\* This step is the failure of activation a's reconnection
\* (index.js:168-174): its last retry has failed and it starts to wait.
ReconnectFailed(a) ==
    /\ actor[a].pc \in {"connect", "signin"}
    /\ actor'[a].pc = "backoff"

\* C29: after the failed reconnection attempt number n (1..5) the
\* orchestrator waits min(5000 * 2^(n-1), 60000) ms, that is 5000, 10000,
\* 20000, 40000, 60000: non-decreasing in n and at most 60000; after a
\* successful attempt it does not wait.
C29_BackoffSchedule ==
    [][/\ <<BackoffOf(1), BackoffOf(2), BackoffOf(3), BackoffOf(4), BackoffOf(5)>>
            = <<5000, 10000, 20000, 40000, 60000>>
       /\ \A a \in Slots :
            /\ ReconnectFailed(a) =>
                /\ actor[a].attempt \in 1..maxReconnectAttempts
                /\ actor'[a].delay = BackoffOf(actor[a].attempt)
            /\ ReconnectSucceeded(a) => actor'[a].delay = 0]_vars

\* The ids that the file's text stores, as JSON.parse reads them.
StoredIds(f) == parse(f.text).messageIds

\* This step mutates the ledger: a markProcessed, or a cleanup(c) of a
\* ledger of more than c ids.
LedgerMutated ==
    \/ \E id \in LedgerIds : MarkCalled(id)
    \/ \E c \in Ceilings : CleanupCalled(c) /\ Len(processedIds) > c

\* C30: write after every mutation.  When markProcessed or an evicting
\* cleanup returns and the file system took its write, the file exists,
\* parses, and stores exactly the ids of the ledger in memory, in their
\* order: the write is part of the call, never left for a later one.
C30_WriteAfterEveryMutation ==
    [][(LedgerMutated /\ disk = "ok") =>
          /\ file'.exists
          /\ Parsable(file')
          /\ StoredIds(file') = processedIds']_vars

\* C30's case: markProcessed has added a second id to the ledger and the
\* file stores both.
C30_Witness ==
    /\ actor[1].pc = "storage"
    /\ actor[1].kind = "markProcessed"
    /\ disk = "ok"
    /\ Len(processedIds) >= 2
    /\ processedIds[Len(processedIds)] = Current(actor[1])
    /\ Parsable(file)
    /\ StoredIds(file) = processedIds

(***************************************************************************)
(* C31: the backfill.                                                      *)
(***************************************************************************)
\* The backlog the reader returns to the backfill in this state.
Backlog == getMessages(chanMax, 0, RecentLimit)

\* The backfill of activation a is in progress: its fetch or its loop.
InBackfill(r) == r.kind = "backfill"

\* This step starts a poll pass in activation a.
PollStarted(a) == InPoll(actor'[a]) /\ ~InPoll(actor[a])

\* C31: the backfill handles the backlog one message at a time in the
\* reverse of the order the reader returned it (oldest first, the reader
\* returning newest first); while it lasts isRunning is false, no timer is
\* installed and no poll pass exists, and isRunning is set and the first
\* poll started only by the step that ends the delay after the last
\* backlog message (or by an empty backlog's return).
C31_BackfillOldestFirst ==
    [][\A a \in Slots :
         /\ (RecentFetchReturned(a) /\ Backlog # << >>) =>
              /\ actor'[a].batch = Reverse(Backlog)
              /\ actor'[a].idx = 1
              /\ \A k \in 1..(Len(Backlog) - 1) :
                    actor'[a].batch[k] < actor'[a].batch[k + 1]
         /\ (InBackfill(actor[a]) /\ InBackfill(actor'[a]) /\ InLoop(actor[a])) =>
              /\ actor'[a].batch = actor[a].batch
              /\ actor'[a].idx \in {actor[a].idx, actor[a].idx + 1}
              /\ actor'[a].idx = actor[a].idx + 1 => actor[a].pc = "delay"
         /\ InBackfill(actor'[a]) =>
              /\ ~isRunning'
              /\ ~pollInterval'
              /\ \A b \in Slots : ~InPoll(actor'[b])
         /\ ((isRunning' /\ ~isRunning) \/ (PollStarted(a) /\ ~pollInterval)) =>
              /\ InBackfill(actor[1])
              /\ \/ actor[1].pc = "delay" /\ actor[1].idx = Len(actor[1].batch)
                 \/ actor[1].pc = "getMessages" /\ Backlog = << >>
              /\ isRunning'
              /\ actor'[1].kind = "first"]_vars

\* C31's case: the backfill is waiting after the second, newer message of
\* a backlog of two, the poll not yet started.
C31_Witness ==
    /\ actor[1].kind = "backfill"
    /\ actor[1].pc = "delay"
    /\ actor[1].batch = <<1, 2>>
    /\ actor[1].idx = 2
    /\ ~isRunning

(***************************************************************************)
(* C32: the retry counter.                                                 *)
(***************************************************************************)
\* The activation is inside telegramClient.reconnect().
InReconnect(r) == r.pc \in {"rc_disc", "rc_delay", "connect", "signin"} /\ InPoll(r)

\* This step is handleReconnection calling telegramClient.reconnect() for
\* activation a (index.js:165).
ReconnectInvoked(a) == InReconnect(actor'[a]) /\ ~InReconnect(actor[a])

\* C32: the retry counter stays within 0..maxReconnectAttempts in every
\* state, overlapping poll passes included, and handleReconnection calls
\* reconnect() only when the counter was below maxReconnectAttempts, after
\* adding one to it.
C32_AttemptsBounded ==
    [][/\ reconnectAttempts \in 0..maxReconnectAttempts
       /\ reconnectAttempts' \in 0..maxReconnectAttempts
       /\ \A a \in Slots : ReconnectInvoked(a) =>
             /\ reconnectAttempts < maxReconnectAttempts
             /\ reconnectAttempts' = reconnectAttempts + 1
             /\ actor'[a].attempt = reconnectAttempts']_vars

\* C32's case: two passes are inside reconnect() at once and the counter
\* is at its ceiling.
C32_Witness ==
    /\ reconnectAttempts = maxReconnectAttempts
    /\ \A a \in Slots : InReconnect(actor[a])
    /\ \E a \in Slots : actor[a].attempt = maxReconnectAttempts

(***************************************************************************)
(* C33: the cursor and the fetch limit.                                    *)
(***************************************************************************)
\* The ids of a batch.
IdsOf(batch) == {batch[k] : k \in 1..Len(batch)}

\* C33: the cursor skips no message.  When the return of a getNewMessages
\* call moves the cursor from c to M, every id in (c, M] is among the
\* messages that call returned, and the pass goes on to hand the first of
\* them to processMessage.
C33_CursorSkipsNothing ==
    [][\A a \in Slots :
         (NewFetchReturned(a) /\ lastMessageId' > lastMessageId) =>
            /\ \A id \in (lastMessageId + 1)..lastMessageId' :
                  id \in IdsOf(NewFetched(a))
            /\ InLoop(actor'[a])]_vars

(***************************************************************************)
(* C34: the cursor across disconnect, connect and reconnect.               *)
(***************************************************************************)
\* Activation a is suspended in disconnect(), connect() or reconnect(), or
\* in the backoff after a failed reconnect, and this step resumes it.
ConnectionStep(a) ==
    /\ actor[a].pc \in {"rc_disc", "rc_delay", "connect", "signin", "stop_disc", "backoff"}
    /\ actor'[a] # actor[a]

\* This step enters reconnect() for activation a or stops the run from
\* handleReconnection: a poll that found the reader disconnected, or whose
\* transport call was rejected.
ConnectionLost(a) ==
    \/ ReconnectInvoked(a)
    \/ PollFailed(a)

\* C34: the cursor never goes down, and only the return of a fetch moves
\* it: the steps of disconnect, connect and reconnect, successful or
\* failed, and the failed polls that start a reconnection leave it as it
\* is, so the first fetch after a reconnection is issued with it.
C34_CursorSurvivesReconnect ==
    [][/\ lastMessageId' >= lastMessageId
       /\ \A a \in Actors :
            (ConnectionStep(a) \/ (a \in Slots /\ ConnectionLost(a)))
                => lastMessageId' = lastMessageId
       /\ lastMessageId' # lastMessageId =>
            \E a \in Slots : RecentFetchReturned(a) \/ NewFetchReturned(a)
       /\ \A a \in Slots : NewFetchIssued(a) => actor'[a].minId = lastMessageId']_vars

\* C34's case: a reconnection is at the sign-in of its second retry (a
\* disconnect and a failed connect behind it) and the cursor is still
\* where the backfill of two messages has put it.
C34_Witness ==
    \E a \in Slots :
        /\ InPoll(actor[a])
        /\ actor[a].pc = "signin"
        /\ actor[a].i >= 1
        /\ lastMessageId = RecentLimit

(***************************************************************************)
(* C35: stop() and the handlers in flight.                                 *)
(***************************************************************************)
\* stop() has been called and is awaiting the reader's disconnect
\* (index.js:237-239); a stop() that finds the reader disconnected goes
\* through to its caller in the step that calls it.
StopInvoked == \E a \in Actors : actor[a].pc = "stop_disc"

\* This step starts a fetch of the reader for activation a.
FetchStarted(a) == actor'[a].pc = "getEntity" /\ actor[a].pc # "getEntity"

\* C35: stop is terminal.  From the call of stop() on (here: while it
\* awaits the disconnect), no step of a start(), a poll pass or a
\* reconnection in flight sets isRunning, installs the timer, starts a
\* fetch or connects the reader.
C35_StopIsTerminal ==
    [][StopInvoked =>
          /\ ~isRunning'
          /\ ~pollInterval'
          /\ \A a \in Slots : ~FetchStarted(a)
          /\ isConnected' => isConnected]_vars

(***************************************************************************)
(* C36: deliveries after BotHandler.stop().                                *)
(***************************************************************************)
\* BotHandler.stop() has returned to a caller and the forwarder has not
\* been made ready since.
ForwarderStopped ==
    /\ ~isReady
    /\ \E b \in Slots : /\ actor[b].pc = "forwarder"
                        /\ actor[b].kind = "stop"
                        /\ actor[b].outcome = "returned"

\* C36: once BotHandler.stop() has returned no message is delivered to the
\* destination, and a forwardMessage called from then on raises without
\* sending.
C36_NoDeliveryAfterStop ==
    [][ForwarderStopped =>
          /\ delivered' = delivered
          /\ \A a \in Slots : ForwardCalled(a) =>
                /\ actor'[a].pc = "forwarder"
                /\ actor'[a].outcome = "threw"]_vars

(***************************************************************************)
(* C37: the order of the keywords.                                         *)
(***************************************************************************)
\* The rearrangements of a keyword list.
PermutationsOf(kws) ==
    LET n == Len(kws)
        bijections == {f \in [1..n -> 1..n] : \A j \in 1..n : \E k \in 1..n : f[k] = j}
    IN {[k \in 1..n |-> kws[f[k]]] : f \in bijections}

\* C37: isJobPost does not depend on the order of the keyword list: for
\* every message and every rearrangement of the keywords, a list with a
\* keyword that is not a valid regular expression included, a filter built
\* from the rearranged list returns the same value.
C37_KeywordOrderIrrelevant ==
    FilterCalled =>
        \A kws \in PermutationsOf(FilterKeywords) :
            isJobPostOf(toLowerCaseAll(kws), FilterMessage) = actor[1].ret

====
